---- MODULE Spec2Model ----
(***************************************************************************)
(* State-machine model of the bluefang AVCTP transport, AVDTP signaling    *)
(* server/session and AVRCP session.                                       *)
(*                                                                         *)
(* The specifications share one set of variables: SpecAvctp drives         *)
(* Avctp::read, SpecAvdtp drives AvdtpServer::on_connection and the        *)
(* AvdtpSession worker, and State::run of the AVRCP session is driven by   *)
(* SpecAvrcp (controller role), SpecAvrcpTarget (target role),             *)
(* SpecAvrcpEvents (the event mailbox) and SpecAvrcpVendor (vendor         *)
(* dependent commands in debug and release builds); SpecAvrcpControl       *)
(* drives Avrcp::handle_control and the session tasks it spawns.           *)
(***************************************************************************)
EXTENDS Integers, Sequences, FiniteSets, TLC

VARIABLES
    \* ---- AVCTP (Avctp) ----
    assembler,            \* Avctp.assembler: <<>> or <<in-flight message>>
    avctp_closed,         \* channel.read() has returned None
    avctp_in,             \* the message completed by the last packet (<<>> or <<m>>)
    avctp_ret,            \* what the last step returned from read() (<<>> or <<m>>)
    avctp_sent,           \* messages handed to channel.send_msg by the last step
    wire,                 \* packets of one message on their way to the assembler
    wire_msg              \* <<>> or <<[msg, via]>>: the message the packets on the
                          \* wire were made from, and how

avctp_vars == <<assembler, avctp_closed, avctp_in, avctp_ret, avctp_sent, wire, wire_msg>>

VARIABLES
    \* ---- AVDTP (AvdtpServer, AvdtpSession) ----
    pending_streams,      \* AvdtpServer.pending_streams: handle -> cell id (0: no entry)
    cell,                 \* the ChannelSender cells: cell id -> oneshot id (0: None)
    oneshot,              \* the oneshot channels made by Open: id -> [st, val]
    sess_pc,              \* where the session worker thread of the handle is
    sessions,             \* number of session workers spawned so far
    streams,              \* AvdtpSession.streams
    channel_receiver,     \* AvdtpSession.channel_receiver: oneshot id (0: None)
    tasks,                \* the transport-channel tasks spawned by on_connection;
                          \* history: seen, the oneshot of the session's receiver
                          \* when on_connection looked the slot up (or the next one
                          \* to be made), and raced, a send that failed on a oneshot
                          \* from seen on
    opened_seid,          \* seid of the most recently accepted Open (0: none)
    last                  \* what the last step of the session worker did

avdtp_vars == <<pending_streams, cell, oneshot, sess_pc, sessions, streams,
                channel_receiver, tasks, opened_seid, last>>

VARIABLES
    \* ---- AVRCP (State) ----
    outstanding_transactions, \* State.outstanding_transactions: label -> TransactionState
    volume,                   \* State.volume
    registered_notifications, \* State.registered_notifications: event id -> label
    events,                   \* the events queued in AvrcpSession.events, oldest first
    avrcp_pc,                 \* "running", "ended" or "panicked"
    avrcp_last,               \* what the last iteration of State::run did
    accepted_volume,          \* history: volume of the last accepted SetAbsoluteVolume
                              \* or UpdatedVolume (MAX_VOLUME before the first)
    interim_sent,             \* history: the registrations now in
                              \* registered_notifications that were answered with
                              \* an Interim (<<>>: none)
    build                     \* cfg(debug_assertions): "any" until the run depends on
                              \* it, then "debug" or "release"

avrcp_vars == <<outstanding_transactions, volume, registered_notifications, events,
                avrcp_pc, avrcp_last, accepted_volume, interim_sent, build>>

VARIABLES
    \* ---- AVRCP (Avrcp) ----
    existing_connections, \* Avrcp.existing_connections: set of connection handles
    control,              \* handle -> [pc, channels]: where the task spawned by
                          \* handle_control is ("none", "configuring", "running") and
                          \* how many control channels came in on the handle
    control_last          \* what the last step of handle_control or its task did

control_vars == <<existing_connections, control, control_last>>

vars == <<avctp_vars, avdtp_vars, avrcp_vars, control_vars>>

(***************************************************************************)
(* Bounds of the model.                                                    *)
(***************************************************************************)
\* Largest packet count a Start packet announces.
MaxPackets == 3
\* Longest payload of an AVDTP signaling command, in bytes.
MaxPayload == 2
\* Session workers spawned for the connection handle.
MaxSessions == 1
\* Transport channels that arrive on the connection handle.
MaxTransport == 2
\* Open commands accepted (oneshot channels created).
MaxOpens == 2
\* Slots (the lowest ones) that take commands other than PassThrough.
MaxMixed == 1
\* Longest data of a message put on the wire in fragments, in bytes.
MaxData == 3
\* Control channels that come in on one connection handle.
MaxChannels == 3
\* Events waiting for the application when the peer reports a further change
\* (SpecAvrcp; SpecAvrcpEvents fills the mailbox).
MaxBacklog == 1
\* VolumeChanged events queued at a time in SpecAvrcpEvents.
MaxVolumeEvents == 1

(***************************************************************************)
(* AVCTP                                                                   *)
(***************************************************************************)
AV_REMOTE_CONTROL == 4366

RECURSIVE SeqsUpTo(_, _)
SeqsUpTo(S, n) ==
    IF n = 0 THEN {<<>>}
    ELSE LET shorter == SeqsUpTo(S, n - 1)
         IN  shorter \cup {Append(q, b) : q \in {x \in shorter : Len(x) = n - 1}, b \in S}

\* Avctp.profile_ids as built by Avrcp::handle_control: [AV_REMOTE_CONTROL].
profile_ids == {AV_REMOTE_CONTROL}

\* Profile ids a peer puts on the wire: the accepted one and 0x1234.
PeerProfileIds == {AV_REMOTE_CONTROL} \cup {4660}

AvctpMessageTypes == {"Command", "Response", "ResponseInvalidProfile", "ResponseNotImplemented"}

AvctpLabels == {0, 15}

\* One payload chunk of a packet.
Chunks == {<<>>, <<170>>}

Message(label, mtype, pid, data) ==
    [transaction_label |-> label, message_type |-> mtype, profile_id |-> pid, data |-> data]

\* Packets on the wire: Single/Start carry the profile id, Start the packet count.
AvctpPackets ==
    [ptype : {"Single"}, transaction_label : AvctpLabels, message_type : AvctpMessageTypes,
     profile_id : PeerProfileIds, count : {1}, data : Chunks]
    \cup
    [ptype : {"Start"}, transaction_label : AvctpLabels, message_type : AvctpMessageTypes,
     profile_id : PeerProfileIds, count : 2..MaxPackets, data : Chunks]
    \cup
    [ptype : {"Continue", "End"}, transaction_label : AvctpLabels, message_type : AvctpMessageTypes,
     profile_id : {0}, count : {0}, data : Chunks]

\* MessageAssembler::process_msg: the new assembler state, the completed
\* message (<<>> or <<m>>) and whether an error was reported.
process_msg(asm, p) ==
    CASE p.ptype = "Single" ->
            IF asm = <<>>
            THEN [asm |-> <<>>, out |-> <<Message(p.transaction_label, p.message_type, p.profile_id, p.data)>>, err |-> FALSE]
            ELSE [asm |-> <<>>, out |-> <<>>, err |-> TRUE]
      [] p.ptype = "Start" ->
            IF asm = <<>>
            THEN [asm |-> <<[msg |-> Message(p.transaction_label, p.message_type, p.profile_id, p.data),
                             left |-> p.count - 1]>>,
                  out |-> <<>>, err |-> FALSE]
            ELSE [asm |-> <<>>, out |-> <<>>, err |-> TRUE]
      [] p.ptype = "Continue" ->
            IF asm # <<>> /\ asm[1].left > 1 /\ asm[1].msg.transaction_label = p.transaction_label
            THEN [asm |-> <<[msg |-> [asm[1].msg EXCEPT !.data = @ \o p.data], left |-> asm[1].left - 1]>>,
                  out |-> <<>>, err |-> FALSE]
            ELSE [asm |-> <<>>, out |-> <<>>, err |-> TRUE]
      [] OTHER ->
            IF asm # <<>> /\ asm[1].left = 1 /\ asm[1].msg.transaction_label = p.transaction_label
            THEN [asm |-> <<>>, out |-> <<[asm[1].msg EXCEPT !.data = @ \o p.data]>>, err |-> FALSE]
            ELSE [asm |-> <<>>, out |-> <<>>, err |-> TRUE]

\* The reply Avctp::read builds for a command of a profile it does not serve.
InvalidProfileReply(msg) ==
    Message(msg.transaction_label, "ResponseInvalidProfile", msg.profile_id, <<>>)

\* Mutant of AvctpDispatch: the reply is sent whatever the message type.
AvctpDispatch_NoTypeCheck(msg) ==
    IF msg.profile_id \in profile_ids
    THEN [ret |-> <<msg>>, sent |-> <<>>]
    ELSE [ret |-> <<>>, sent |-> <<InvalidProfileReply(msg)>>]

\* Avctp::read, the Ok(Some(msg)) arm: what is returned and what is sent.
AvctpDispatch(msg) ==
    IF msg.profile_id \in profile_ids
    THEN [ret |-> <<msg>>, sent |-> <<>>]
    ELSE [ret |-> <<>>,
          sent |-> IF msg.message_type = "Command" THEN <<InvalidProfileReply(msg)>> ELSE <<>>]

\* One iteration of the loop of Avctp::read on a packet the channel delivers.
AvctpRead(packet) ==
    /\ ~avctp_closed
    /\ LET r == process_msg(assembler, packet)
           d == IF r.out # <<>> THEN AvctpDispatch(r.out[1]) ELSE [ret |-> <<>>, sent |-> <<>>]
       IN  /\ assembler' = r.asm
           /\ avctp_in' = r.out
           /\ avctp_ret' = d.ret
           /\ avctp_sent' = d.sent
    /\ UNCHANGED avctp_closed

\* channel.read() yields None: read() returns None.
AvctpReadClosed ==
    /\ ~avctp_closed
    /\ avctp_closed' = TRUE
    /\ avctp_in' = <<>>
    /\ avctp_ret' = <<>>
    /\ avctp_sent' = <<>>
    /\ UNCHANGED assembler

\* The messages a sender fragments: their data is told apart byte by byte.
WireMessages ==
    {Message(l, t, p, d) : l \in AvctpLabels, t \in AvctpMessageTypes,
                           p \in PeerProfileIds, d \in SeqsUpTo({1, 2}, MaxData)}

\* The packets m goes out as when a packet takes at most mtu bytes of data:
\* one Single packet, or a Start packet with the packet count, Continue
\* packets and an End packet.
fragment(m, mtu) ==
    LET len == Len(m.data)
        n == IF len <= mtu THEN 1 ELSE (len + mtu - 1) \div mtu
        chunk(i) == SubSeq(m.data, (i - 1) * mtu + 1, IF i * mtu < len THEN i * mtu ELSE len)
    IN  [i \in 1..n |->
            [ptype |-> IF n = 1 THEN "Single" ELSE IF i = 1 THEN "Start"
                       ELSE IF i = n THEN "End" ELSE "Continue",
             transaction_label |-> m.transaction_label,
             message_type |-> m.message_type,
             profile_id |-> IF i = 1 THEN m.profile_id ELSE 0,
             count |-> IF n = 1 THEN 1 ELSE IF i = 1 THEN n ELSE 0,
             data |-> chunk(i)]]

\* send_msg leaving the data behind.
send_msg_NoData(m) ==
    <<[ptype |-> "Single", transaction_label |-> m.transaction_label,
       message_type |-> m.message_type, profile_id |-> m.profile_id, count |-> 1,
       data |-> <<>>]>>

\* Avctp::send_msg: the message goes out as a single packet.
send_msg(m) ==
    <<[ptype |-> "Single", transaction_label |-> m.transaction_label,
       message_type |-> m.message_type, profile_id |-> m.profile_id, count |-> 1,
       data |-> m.data]>>

\* A sender puts the fragments of m on the wire to an assembler with no
\* message in flight.
PeerFragments(m, mtu) ==
    /\ ~avctp_closed
    /\ wire = <<>>
    /\ assembler = <<>>
    /\ wire' = fragment(m, mtu)
    /\ wire_msg' = <<[msg |-> m, via |-> "fragment"]>>
    /\ avctp_in' = <<>>
    /\ avctp_ret' = <<>>
    /\ avctp_sent' = <<>>
    /\ UNCHANGED <<assembler, avctp_closed>>

\* A message is handed to Avctp::send_msg; the assembler of the other side
\* has no message in flight.
AvctpSendMsg(m) ==
    /\ ~avctp_closed
    /\ wire = <<>>
    /\ assembler = <<>>
    /\ wire' = send_msg(m)
    /\ wire_msg' = <<[msg |-> m, via |-> "send_msg"]>>
    /\ avctp_in' = <<>>
    /\ avctp_ret' = <<>>
    /\ avctp_sent' = <<>>
    /\ UNCHANGED <<assembler, avctp_closed>>

\* channel.read() yields the next packet on the wire.
WireDeliver ==
    /\ wire # <<>>
    /\ AvctpRead(Head(wire))
    /\ wire' = Tail(wire)
    /\ UNCHANGED wire_msg

(***************************************************************************)
(* AVDTP                                                                   *)
(***************************************************************************)
\* The connection handle of the peer.
Handles == {64}

\* seids of AvdtpServer.local_endpoints.
LocalSeids == {1, 2}

\* Bytes a peer puts into a signaling payload: seid 1, seid 2 (with the low
\* bits set) and seid 3, which no local endpoint has.
PayloadBytes == {4, 9, 12}

\* Payloads a peer sends with a signal: every byte sequence up to MaxPayload
\* for the signals that take a list of seids; for SetConfiguration the
\* acp_seid with and without an int_seid; for the signals that take one
\* seid also one with a trailing byte; for the rest none or one byte.
Payloads(sig) ==
    CASE sig \in {"Start", "Suspend"} -> SeqsUpTo(PayloadBytes, MaxPayload)
      [] sig = "SetConfiguration" ->
            SeqsUpTo(PayloadBytes, 1) \cup {<<b, 4>> : b \in PayloadBytes}
      [] sig \in {"Discover", "SecurityControl", "Unknown", "DelayReport"} -> SeqsUpTo({4}, 1)
      [] OTHER -> SeqsUpTo(PayloadBytes, 1) \cup {<<4, 9>>}

SignalIdentifiers ==
    {"Discover", "GetCapabilities", "GetAllCapabilities", "SetConfiguration",
     "GetConfiguration", "Reconfigure", "Open", "Start", "Close", "Suspend",
     "Abort", "SecurityControl", "Unknown", "DelayReport"}

SignalMessageTypes == {"Command", "GeneralReject", "ResponseAccept", "ResponseReject"}

SignalLabels == {1}

SignalMessages ==
    UNION {[transaction_label : SignalLabels, message_type : {"Command"},
            signal_identifier : {sig}, data : Payloads(sig)] : sig \in SignalIdentifiers}
    \cup
    [transaction_label : SignalLabels, message_type : SignalMessageTypes \ {"Command"},
     signal_identifier : {"Discover"}, data : {<<>>}]

\* ErrorCode values.
BadLength == 17
BadAcpSeid == 18
InvalidCapabilities == 26
NotSupportedCommand == 25
BadState == 49

\* ServiceCategory::Unknown as written into a reject payload.
ServiceCategoryUnknown == <<0>>

\* Capability categories of an endpoint; DelayReporting is not basic.
MediaTransport == 1
MediaCodec == 7
DelayReporting == 8
EndpointCapabilities == <<MediaTransport, MediaCodec, DelayReporting>>
is_basic(cap) == cap # DelayReporting

\* `data.read_be::<u8>()? >> 2`
ReadSeid(b) == b \div 4

Stream(seid, state, chan) ==
    [local_endpoint |-> seid, state |-> state, channel |-> chan]

\* Stream::is_opening
is_opening(stream) == stream.state = "Opening"

\* The first index of the set hits (0: hits is empty), as find and position
\* of an iterator give it.
First(hits) ==
    IF hits = {} THEN 0 ELSE CHOOSE i \in hits : \A j \in hits : i <= j

\* streams.iter().position(|stream| stream.local_endpoint == seid)
position(ss, seid) == First({i \in 1..Len(ss) : ss[i].local_endpoint = seid})

\* streams.iter_mut().find(|stream| stream.is_opening())
find_opening(ss) == First({i \in 1..Len(ss) : is_opening(ss[i])})

\* Vec::swap_remove
swap_remove(seq, i) ==
    LET n == Len(seq)
    IN  [j \in 1..(n - 1) |-> IF j = i THEN seq[n] ELSE seq[j]]

\* AvdtpSession::get_endpoint: found or BadAcpSeid.
get_endpoint(seid) ==
    IF seid \in LocalSeids THEN [ok |-> TRUE, err |-> 0] ELSE [ok |-> FALSE, err |-> BadAcpSeid]

\* AvdtpSession::get_stream: index of the stream or the error code.
get_stream(ss, seid) ==
    LET i == position(ss, seid)
    IN  IF i # 0 THEN [ok |-> TRUE, idx |-> i, err |-> 0]
        ELSE [ok |-> FALSE, idx |-> 0,
              err |-> IF \E ep \in LocalSeids : ep = seid THEN BadState ELSE BadAcpSeid]

\* The state transitions of Stream: the new state, or BadState.
StreamTransition(stream, from, to) ==
    IF stream.state \in from
    THEN [ok |-> TRUE, stream |-> [stream EXCEPT !.state = to], err |-> 0]
    ELSE [ok |-> FALSE, stream |-> stream, err |-> BadState]

set_to_opening(stream) == StreamTransition(stream, {"Configured"}, "Opening")
start(stream) == StreamTransition(stream, {"Open"}, "Streaming")
stop(stream) == StreamTransition(stream, {"Streaming"}, "Open")
close(stream) == StreamTransition(stream, {"Open", "Streaming"}, "Closing")
set_channel(stream, chan) == [stream EXCEPT !.state = "Open", !.channel = chan]

\* The outcome of the closure handed to try_accept: Ok with the accept
\* payload, or Err with the error context as it stands and the reason; in
\* both cases the session state the closure leaves behind.
Ok(buf, ss, open) == [ok |-> TRUE, buf |-> buf, ctx |-> <<>>, reason |-> 0, streams |-> ss, open |-> open]
Err(ctx, reason, ss) == [ok |-> FALSE, buf |-> <<>>, ctx |-> ctx, reason |-> reason, streams |-> ss, open |-> FALSE]

\* `let seid = data.read_be::<u8>()? >> 2; data.finish()?;`
ReadOneSeid(data) ==
    IF Len(data) = 0 THEN [ok |-> FALSE, seid |-> 0, err |-> BadLength]
    ELSE IF Len(data) > 1 THEN [ok |-> FALSE, seid |-> 0, err |-> BadLength]
    ELSE [ok |-> TRUE, seid |-> ReadSeid(data[1]), err |-> 0]

\* The loop of the Start and Suspend closures; step names Stream::start or
\* Stream::stop and ctx is the error context written so far.
RECURSIVE SeidLoop(_, _, _, _)
SeidLoop(data, ss, ctx, step) ==
    IF Len(data) = 0 THEN Err(ctx, BadLength, ss)
    ELSE LET seid == ReadSeid(Head(data))
             rest == Tail(data)
         IN  IF rest # <<>> THEN Err(ctx, BadLength, ss)
             ELSE LET sink == get_stream(ss, seid)
                  IN  IF ~sink.ok THEN Err(<<seid>>, sink.err, ss)
                      ELSE LET t == IF step = "start" THEN start(ss[sink.idx]) ELSE stop(ss[sink.idx])
                           IN  IF ~t.ok THEN Err(<<seid>>, t.err, ss)
                               ELSE IF rest # <<>>
                                    THEN SeidLoop(rest, [ss EXCEPT ![sink.idx] = t.stream], <<seid>>, step)
                                    ELSE Ok(<<>>, [ss EXCEPT ![sink.idx] = t.stream], FALSE)

\* Discover: every endpoint's two bytes (seid << 2 | in_use << 1, media type and tsep).
DiscoverPayload == <<1 * 4, 8, 2 * 4, 8>>

\* The basic capabilities of an endpoint, in order.
BasicCapabilities == SelectSeq(EndpointCapabilities, is_basic)

\* Stream::get_capabilities: the capabilities a stream was configured with
\* (their content is not modelled).
ConfiguredCapabilities == <<MediaTransport, MediaCodec>>

\* The closures handed to try_accept by handle_signal_message, one per
\* signal. capsOk: Stream::new / Stream::reconfigure accept the capabilities.
DiscoverClosure(data, ss) ==
    IF data # <<>> THEN Err(<<>>, BadLength, ss) ELSE Ok(DiscoverPayload, ss, FALSE)

GetCapabilitiesClosure(data, ss) ==
    LET one == ReadOneSeid(data)
    IN  IF ~one.ok THEN Err(<<>>, one.err, ss)
        ELSE IF ~get_endpoint(one.seid).ok THEN Err(<<>>, get_endpoint(one.seid).err, ss)
        ELSE Ok(BasicCapabilities, ss, FALSE)

GetAllCapabilitiesClosure(data, ss) ==
    LET one == ReadOneSeid(data)
    IN  IF ~one.ok THEN Err(<<>>, one.err, ss)
        ELSE IF ~get_endpoint(one.seid).ok THEN Err(<<>>, get_endpoint(one.seid).err, ss)
        ELSE Ok(EndpointCapabilities, ss, FALSE)

\* Mutant of SetConfigurationClosure: the ensure! on the stream list is missing.
SetConfigurationClosure_NoEnsure(data, ss, capsOk) ==
    IF Len(data) < 2 THEN Err(ServiceCategoryUnknown, BadLength, ss)
    ELSE LET acp_seid == ReadSeid(data[1])
         IN  IF ~get_endpoint(acp_seid).ok
             THEN Err(ServiceCategoryUnknown, get_endpoint(acp_seid).err, ss)
             ELSE IF ~capsOk THEN Err(ServiceCategoryUnknown, InvalidCapabilities, ss)
             ELSE Ok(<<>>, Append(ss, Stream(acp_seid, "Configured", 0)), FALSE)

SetConfigurationClosure(data, ss, capsOk) ==
    IF Len(data) < 2 THEN Err(ServiceCategoryUnknown, BadLength, ss)
    ELSE LET acp_seid == ReadSeid(data[1])
         IN  IF ~get_endpoint(acp_seid).ok
             THEN Err(ServiceCategoryUnknown, get_endpoint(acp_seid).err, ss)
             ELSE IF ~(\A i \in 1..Len(ss) : ss[i].local_endpoint # acp_seid)
             THEN Err(ServiceCategoryUnknown, BadState, ss)
             ELSE IF ~capsOk THEN Err(ServiceCategoryUnknown, InvalidCapabilities, ss)
             ELSE Ok(<<>>, Append(ss, Stream(acp_seid, "Configured", 0)), FALSE)

GetConfigurationClosure(data, ss) ==
    LET one == ReadOneSeid(data)
    IN  IF ~one.ok THEN Err(<<>>, one.err, ss)
        ELSE LET stream == get_stream(ss, one.seid)
             IN  IF ~stream.ok THEN Err(<<>>, stream.err, ss)
                 ELSE Ok(ConfiguredCapabilities, ss, FALSE)

ReconfigureClosure(data, ss, capsOk) ==
    IF Len(data) < 1 THEN Err(ServiceCategoryUnknown, BadLength, ss)
    ELSE LET acp_seid == ReadSeid(data[1])
             i == position(ss, acp_seid)
         IN  IF acp_seid \notin LocalSeids THEN Err(ServiceCategoryUnknown, BadAcpSeid, ss)
             ELSE IF i = 0 THEN Err(ServiceCategoryUnknown, BadState, ss)
             ELSE IF ~capsOk THEN Err(ServiceCategoryUnknown, InvalidCapabilities, ss)
             ELSE Ok(<<>>, ss, FALSE)

\* OpenClosure making the rendezvous pair before it looks for the stream.
OpenClosure_InstallsFirst(data, ss) ==
    LET one == ReadOneSeid(data)
    IN  IF ~one.ok THEN Err(<<>>, one.err, ss)
        ELSE LET stream == get_stream(ss, one.seid)
             IN  IF ~stream.ok THEN [Err(<<>>, stream.err, ss) EXCEPT !.open = TRUE]
                 ELSE LET t == set_to_opening(ss[stream.idx])
                      IN  IF ~t.ok THEN [Err(<<>>, t.err, ss) EXCEPT !.open = TRUE]
                          ELSE Ok(<<>>, [ss EXCEPT ![stream.idx] = t.stream], TRUE)

\* open: the closure went on to install the rendezvous pair.
OpenClosure(data, ss) ==
    LET one == ReadOneSeid(data)
    IN  IF ~one.ok THEN Err(<<>>, one.err, ss)
        ELSE LET stream == get_stream(ss, one.seid)
             IN  IF ~stream.ok THEN Err(<<>>, stream.err, ss)
                 ELSE LET t == set_to_opening(ss[stream.idx])
                      IN  IF ~t.ok THEN Err(<<>>, t.err, ss)
                          ELSE Ok(<<>>, [ss EXCEPT ![stream.idx] = t.stream], TRUE)

StartClosure(data, ss) == SeidLoop(data, ss, <<0>>, "start")

CloseClosure(data, ss) ==
    LET one == ReadOneSeid(data)
    IN  IF ~one.ok THEN Err(<<>>, one.err, ss)
        ELSE LET stream == get_stream(ss, one.seid)
             IN  IF ~stream.ok THEN Err(<<>>, stream.err, ss)
                 ELSE LET t == close(ss[stream.idx])
                      IN  IF ~t.ok THEN Err(<<>>, t.err, ss)
                          ELSE Ok(<<>>, [ss EXCEPT ![stream.idx] = t.stream], FALSE)

SuspendClosure(data, ss) == SeidLoop(data, ss, <<0>>, "stop")

AbortClosure(data, ss) ==
    LET one == ReadOneSeid(data)
    IN  IF ~one.ok THEN Err(<<>>, one.err, ss)
        ELSE LET id == position(ss, one.seid)
             IN  IF id # 0 THEN Ok(<<>>, swap_remove(ss, id), FALSE) ELSE Ok(<<>>, ss, FALSE)

\* SignalMessageResponse::unsupported
UnsupportedClosure(ss) == Err(<<>>, NotSupportedCommand, ss)

\* The match of handle_signal_message over the signals answered by try_accept.
SignalClosure(msg, ss, capsOk) ==
    LET data == msg.data
        sig == msg.signal_identifier
    IN
    CASE sig = "Discover" -> DiscoverClosure(data, ss)
      [] sig = "GetCapabilities" -> GetCapabilitiesClosure(data, ss)
      [] sig = "GetAllCapabilities" -> GetAllCapabilitiesClosure(data, ss)
      [] sig = "SetConfiguration" -> SetConfigurationClosure(data, ss, capsOk)
      [] sig = "GetConfiguration" -> GetConfigurationClosure(data, ss)
      [] sig = "Reconfigure" -> ReconfigureClosure(data, ss, capsOk)
      [] sig = "Open" -> OpenClosure(data, ss)
      [] sig = "Start" -> StartClosure(data, ss)
      [] sig = "Close" -> CloseClosure(data, ss)
      [] sig = "Suspend" -> SuspendClosure(data, ss)
      [] sig = "Abort" -> AbortClosure(data, ss)
      [] OTHER -> UnsupportedClosure(ss)

SignalMessage(label, mtype, sig, data) ==
    [transaction_label |-> label, message_type |-> mtype, signal_identifier |-> sig, data |-> data]

\* SignalMessageResponse::try_accept: the reply built from the closure's outcome.
try_accept(msg, r) ==
    IF r.ok
    THEN SignalMessage(msg.transaction_label, "ResponseAccept", msg.signal_identifier, r.buf)
    ELSE SignalMessage(msg.transaction_label, "ResponseReject", msg.signal_identifier,
                       r.ctx \o <<r.reason>>)

\* SignalMessageResponse::general_reject
general_reject(msg) ==
    SignalMessage(msg.transaction_label, "GeneralReject", msg.signal_identifier, <<>>)

\* AvdtpSession::handle_signal_message for a Command: the reply, the streams
\* afterwards, and whether a rendezvous pair was installed.
handle_signal_message(msg, ss, capsOk) ==
    IF msg.signal_identifier = "Unknown"
    THEN [reply |-> general_reject(msg), streams |-> ss, open |-> FALSE]
    ELSE LET r == SignalClosure(msg, ss, capsOk)
         IN  [reply |-> try_accept(msg, r), streams |-> r.streams, open |-> r.open]

\* What the session worker's last step did. kind is "none", "signal" (a
\* command was dispatched; ok: send_signal succeeded), "assert" (a message
\* that is no Command reached handle_signal_message), "expect" (the
\* rendezvous receiver was closed), "skipped" (the assembler gave no
\* message), "stream_ended", "rendezvous" (chan: the channel received),
\* "closed" (the signaling channel was closed), "send_failed" or
\* "configure_failed".
Last(kind, msg, reply, before, chan) ==
    [kind |-> kind, msg |-> msg, reply |-> reply, before |-> before, chan |-> chan]

NoLast == Last("none", <<>>, <<>>, <<>>, 0)

\* The oneshot channels after the receiver rx (0: none) is dropped.
DropReceiver(os, rx) ==
    IF rx = 0 THEN os
    ELSE [os EXCEPT ![rx].st = IF @ = "open" THEN "rx_dropped"
                               ELSE IF @ = "sent" THEN "lost" ELSE @]

\* The oneshot channels after the sender tx (0: none) is dropped unused.
DropSender(os, tx) ==
    IF tx = 0 THEN os
    ELSE [os EXCEPT ![tx].st = IF @ = "open" THEN "closed"
                               ELSE IF @ = "rx_dropped" THEN "dead" ELSE @]

\* Oneshot channels created so far.
Opens == Cardinality({n \in DOMAIN oneshot : oneshot[n].st # "unused"})

\* No thread is scheduled between a step of the worker and its return to
\* select!: the step's record is read at sess_pc = "handled".
Quiet == sess_pc # "handled"

\* on_connection, pending_stream = None: install the slot, spawn the worker.
OnConnectionNew(handle) ==
    /\ Quiet
    /\ pending_streams[handle] = 0
    /\ sessions < MaxSessions
    /\ sessions' = sessions + 1
    /\ pending_streams' = [pending_streams EXCEPT ![handle] = sessions + 1]
    /\ cell' = [cell EXCEPT ![sessions + 1] = 0]
    /\ sess_pc' = "configure"
    /\ streams' = <<>>
    /\ channel_receiver' = 0
    /\ opened_seid' = 0
    /\ last' = NoLast
    /\ UNCHANGED <<oneshot, tasks>>

\* on_connection, pending_stream = Some(pending): spawn the delivery task.
OnConnectionExisting(handle) ==
    /\ Quiet
    /\ pending_streams[handle] # 0
    /\ Len(tasks) < MaxTransport
    /\ tasks' = Append(tasks, [pc |-> "configure", cell |-> pending_streams[handle], tx |-> 0,
                               seen |-> IF channel_receiver # 0 THEN channel_receiver
                                        ELSE Opens + 1,
                               raced |-> FALSE])
    /\ UNCHANGED <<pending_streams, cell, oneshot, sess_pc, sessions, streams,
                   channel_receiver, opened_seid, last>>

\* The worker's channel.configure(): on failure the closure returns.
SessionConfigure(ok) ==
    /\ sess_pc = "configure"
    /\ sess_pc' = IF ok THEN "running" ELSE "done"
    /\ last' = IF ok THEN NoLast ELSE Last("configure_failed", <<>>, <<>>, <<>>, 0)
    /\ UNCHANGED <<pending_streams, cell, oneshot, sessions, streams,
                   channel_receiver, tasks, opened_seid>>

\* The worker unwinds from a panic: the session is dropped, the rest of the
\* closure does not run.
SessionPanics(l) ==
    /\ sess_pc' = "panicked"
    /\ oneshot' = DropReceiver(oneshot, channel_receiver)
    /\ streams' = <<>>
    /\ channel_receiver' = 0
    /\ opened_seid' = 0
    /\ last' = l
    /\ UNCHANGED <<pending_streams, cell, sessions, tasks>>

\* Whether Stream::new / Stream::reconfigure is reached, so that its verdict
\* on the capabilities is an input of the step.
CapsVerdicts(msg) ==
    IF msg.signal_identifier \in {"SetConfiguration", "Reconfigure"} THEN BOOLEAN ELSE {TRUE}

\* handle_control_channel, `signal = channel.read()` with Some(packet) and
\* the assembler yielding a message: handle_signal_message and the reply
\* handed to send_signal.
SignalPacket(msg, capsOk) ==
    /\ sess_pc = "running"
    /\ IF msg.message_type # "Command"
       THEN SessionPanics(Last("assert", msg, <<>>, <<>>, 0))
       ELSE LET r == handle_signal_message(msg, streams, capsOk)
                n == Opens + 1
                c == sessions
            IN  /\ r.open => n <= MaxOpens
                /\ streams' = r.streams
                /\ IF r.open
                   THEN /\ cell' = [cell EXCEPT ![c] = n]
                        /\ channel_receiver' = n
                        /\ oneshot' = [DropReceiver(DropSender(oneshot, cell[c]), channel_receiver)
                                          EXCEPT ![n] = [st |-> "open", val |-> 0]]
                        /\ opened_seid' = ReadSeid(msg.data[1])
                   ELSE UNCHANGED <<cell, channel_receiver, oneshot, opened_seid>>
                /\ sess_pc' = "handled"
                /\ last' = Last("signal", msg, r.reply, streams, 0)
                /\ UNCHANGED <<pending_streams, sessions, tasks>>

\* `signal = channel.read()` with Some(packet) and the assembler yielding
\* Ok(None) or Err: continue.
SignalSkipped ==
    /\ sess_pc = "running"
    /\ sess_pc' = "handled"
    /\ last' = Last("skipped", <<>>, <<>>, streams, 0)
    /\ UNCHANGED <<pending_streams, cell, oneshot, sessions, streams,
                   channel_receiver, tasks, opened_seid>>

\* `signal = channel.read()` with None: break.
SignalClosed ==
    /\ sess_pc = "running"
    /\ sess_pc' = "exited"
    /\ last' = Last("closed", <<>>, <<>>, <<>>, 0)
    /\ UNCHANGED <<pending_streams, cell, oneshot, sessions, streams,
                   channel_receiver, tasks, opened_seid>>

\* `select_all(&mut self.streams)`: stream i has ended; swap_remove(i).
StreamEnded(i) ==
    /\ sess_pc = "running"
    /\ i \in 1..Len(streams)
    /\ streams[i].state = "Closing"
    /\ streams' = swap_remove(streams, i)
    /\ sess_pc' = "handled"
    /\ last' = Last("stream_ended", <<>>, <<>>, streams, 0)
    /\ UNCHANGED <<pending_streams, cell, oneshot, sessions,
                   channel_receiver, tasks, opened_seid>>

\* `res = stall_if_none(&mut self.channel_receiver)`: the oneshot has
\* completed, with the channel or with the sender gone.
Rendezvous ==
    /\ sess_pc = "running"
    /\ channel_receiver # 0
    /\ oneshot[channel_receiver].st \in {"sent", "closed"}
    /\ IF oneshot[channel_receiver].st = "closed"
       THEN SessionPanics(Last("expect", <<>>, <<>>, <<>>, 0))
       ELSE LET channel == oneshot[channel_receiver].val
                i == find_opening(streams)
            IN  /\ streams' = IF i # 0 THEN [streams EXCEPT ![i] = set_channel(streams[i], channel)]
                                        ELSE streams
                /\ channel_receiver' = 0
                /\ oneshot' = [oneshot EXCEPT ![channel_receiver].st = "recvd"]
                /\ sess_pc' = "handled"
                /\ last' = Last("rendezvous", <<>>, <<>>, streams, channel)
                /\ UNCHANGED <<pending_streams, cell, sessions, tasks, opened_seid>>

\* The end of a loop iteration: `channel.send_signal(reply)?` returns the
\* error of a failed send from handle_control_channel, anything else is
\* followed by the next select!.
LoopBack(sendOk) ==
    /\ sess_pc = "handled"
    /\ sendOk \/ last.kind = "signal"
    /\ sess_pc' = IF sendOk THEN "running" ELSE "exited"
    /\ last' = IF sendOk THEN NoLast ELSE Last("send_failed", <<>>, <<>>, <<>>, 0)
    /\ UNCHANGED <<pending_streams, cell, oneshot, sessions, streams,
                   channel_receiver, tasks, opened_seid>>

\* The end of the worker's closure after handle_control_channel returned:
\* `pending_streams.lock().remove(&handle)`, then the session is dropped.
SessionCleanup(handle) ==
    /\ sess_pc = "exited"
    /\ pending_streams[handle] = sessions
    /\ pending_streams' = [pending_streams EXCEPT ![handle] = 0]
    /\ oneshot' = DropReceiver(oneshot, channel_receiver)
    /\ streams' = <<>>
    /\ channel_receiver' = 0
    /\ opened_seid' = 0
    /\ sess_pc' = "done"
    /\ UNCHANGED <<cell, sessions, tasks, last>>

\* The delivery task's channel.configure(): on failure the task returns.
TaskConfigure(t, ok) ==
    /\ Quiet
    /\ t \in 1..Len(tasks)
    /\ tasks[t].pc = "configure"
    /\ tasks' = [tasks EXCEPT ![t] = IF ok THEN [@ EXCEPT !.pc = "take"]
                                     ELSE [pc |-> "config_failed", cell |-> 0, tx |-> 0, seen |-> 0,
                                           raced |-> FALSE]]
    /\ UNCHANGED <<pending_streams, cell, oneshot, sess_pc, sessions, streams,
                   channel_receiver, opened_seid, last>>

\* `pending.take().expect("Unexpected AVDTP transport connection")`
TaskTake(t) ==
    /\ Quiet
    /\ t \in 1..Len(tasks)
    /\ tasks[t].pc = "take"
    /\ LET c == tasks[t].cell
       IN  /\ tasks' = [tasks EXCEPT ![t] = IF cell[c] = 0
                                            THEN [pc |-> "panicked_take", cell |-> 0, tx |-> 0,
                                                  seen |-> 0, raced |-> FALSE]
                                            ELSE [@ EXCEPT !.pc = "send", !.cell = 0,
                                                           !.tx = cell[c]]]
           /\ cell' = [cell EXCEPT ![c] = 0]
    /\ UNCHANGED <<pending_streams, oneshot, sess_pc, sessions, streams,
                   channel_receiver, opened_seid, last>>

\* `.send(channel).unwrap_or_else(|_| panic!("Failed to send channel to session"))`
TaskSend(t) ==
    /\ Quiet
    /\ t \in 1..Len(tasks)
    /\ tasks[t].pc = "send"
    /\ LET n == tasks[t].tx
       IN  IF oneshot[n].st = "open"
           THEN /\ oneshot' = [oneshot EXCEPT ![n] = [st |-> "sent", val |-> t]]
                /\ tasks' = [tasks EXCEPT ![t] = [pc |-> "sent", cell |-> 0, tx |-> 0, seen |-> 0,
                                                   raced |-> FALSE]]
           ELSE /\ oneshot' = DropSender(oneshot, n)
                /\ tasks' = [tasks EXCEPT ![t] = [pc |-> "panicked_send", cell |-> 0, tx |-> 0,
                                                   seen |-> 0, raced |-> n >= tasks[t].seen]]
    /\ UNCHANGED <<pending_streams, cell, sess_pc, sessions, streams,
                   channel_receiver, opened_seid, last>>

AvdtpInit ==
    /\ pending_streams = [h \in Handles |-> 0]
    /\ cell = [c \in 1..MaxSessions |-> 0]
    /\ oneshot = [n \in 1..MaxOpens |-> [st |-> "unused", val |-> 0]]
    /\ sess_pc = "idle"
    /\ sessions = 0
    /\ streams = <<>>
    /\ channel_receiver = 0
    /\ tasks = <<>>
    /\ opened_seid = 0
    /\ last = NoLast

(***************************************************************************)
(* AVRCP: State::run, the session loop over the transaction table.         *)
(***************************************************************************)
NumSlots == 16

EventCapacity == 16

MAX_VOLUME == 127

TransactionLabels == 0..(NumSlots - 1)

\* TransactionState; the senders and parsers are not part of the value.
Empty == [tag |-> "Empty", code |-> "-"]

PendingPassThrough == [tag |-> "PendingPassThrough", code |-> "-"]

PendingVendorDependent(code) == [tag |-> "PendingVendorDependent", code |-> code]

\* parser: the EventParser the application registered.
PendingNotificationRegistration(parser) ==
    [tag |-> "PendingNotificationRegistration", code |-> parser]

WaitingForChange(parser) == [tag |-> "WaitingForChange", code |-> parser]

is_free(x) == x.tag = "Empty"

\* take_sender without the WaitingForChange arm.
take_sender_Empty(x) == Empty

take_sender(x) ==
    IF x.tag = "PendingNotificationRegistration" THEN WaitingForChange(x.code) ELSE Empty

ResponseCodes ==
    {"NotImplemented", "Accepted", "Rejected", "InTransition", "Implemented", "Changed", "Interim"}

is_response(ctype) == ctype \in ResponseCodes

\* Mutant of position_is_free: the highest free index instead of the first.
position_is_free_Last(table) ==
    LET free == {i \in TransactionLabels : is_free(table[i])}
    IN  IF free = {} THEN <<>>
        ELSE <<CHOOSE i \in free : \A j \in free : j <= i>>

\* outstanding_transactions.iter().position(|x| x.is_free()): <<>> is None,
\* <<i>> is Some(i).
position_is_free(table) ==
    LET free == {i \in TransactionLabels : is_free(table[i])}
    IN  IF free = {} THEN <<>>
        ELSE <<CHOOSE i \in free : \A j \in free : i <= j>>

\* AvrcpCommand::into_response_sender is Some for this command.
into_response_sender(cmd) == cmd.kind # "UpdatedVolume"

\* (volume.min(1.0).max(0.0) * MAX_VOLUME as f32).round() as u8, the volume
\* given in percent.
Quantize(percent) ==
    LET clamped == IF percent > 100 THEN 100 ELSE IF percent < 0 THEN 0 ELSE percent
    IN  (2 * clamped * MAX_VOLUME + 100) \div 200

PANEL == "PANEL"

UNIT_INFO == "UNIT_INFO"

VolumeChanged == 13

COMPANY_ID_CAPABILITY == 2

EVENTS_SUPPORTED_CAPABILITY == 3

\* The message send_avc / send_avrcp hand to Avctp::send_msg.
\* what: the opcode or pdu, parameters: the event id and volume bytes written
\* after it (other parameters are left out); the frame is of the PANEL
\* subunit unless send_avc is given another.
AvrcpMessage(label, ctype, what, parameters) ==
    [transaction_label |-> label,
     profile_id |-> AV_REMOTE_CONTROL,
     message_type |-> IF is_response(ctype) THEN "Response" ELSE "Command",
     ctype |-> ctype,
     subunit |-> PANEL,
     what |-> what,
     parameters |-> parameters]

\* send_avc / send_avrcp: the messages that went out (sendOk: send_msg worked).
SentWith(sendOk, label, ctype, what, parameters) ==
    IF sendOk THEN <<AvrcpMessage(label, ctype, what, parameters)>> ELSE <<>>

Sent(sendOk, label, ctype, what) == SentWith(sendOk, label, ctype, what, <<>>)

\* send_avc: the message built from a Frame and its parameters.
send_avc(sendOk, label, ctype, subunit, opcode, parameters) ==
    IF sendOk
    THEN <<[AvrcpMessage(label, ctype, opcode, parameters) EXCEPT !.subunit = subunit]>>
    ELSE <<>>

\* What a handler leaves behind: the transaction table, the volume, the
\* registration of VolumeChanged (<<>> or <<label>>), the messages sent, the
\* result given to the taken sender ("-": none), the event handed to
\* trigger_event ("-": none, "unparsed": the event parser failed), and whether
\* process_message returned Err(NotImplemented).
Outcome(tx, vol, reg, sent, answer, event) ==
    [tx |-> tx, volume |-> vol, reg |-> reg, sent |-> sent, answer |-> answer,
     event |-> event, not_implemented |-> FALSE]

NotImplemented(tx, vol, reg) ==
    [tx |-> tx, volume |-> vol, reg |-> reg, sent |-> <<>>, answer |-> "-",
     event |-> "-", not_implemented |-> TRUE]

\* The parsers the application registers notifications with.
EventParsers == {"parser_a", "parser_b"}

\* The user commands of AvrcpSession.
AvrcpCommands ==
    {[kind |-> "PassThrough", arg |-> 0]}
    \cup {[kind |-> "VendorSpecific", arg |-> c] : c \in {"Control", "Status"}}
    \cup {[kind |-> "RegisterNotification", arg |-> p] : p \in EventParsers}
    \cup {[kind |-> "UpdatedVolume", arg |-> p] : p \in {50, 150}}

\* The slot a command with a sender leaves behind once it is sent.
PendingSlot(cmd) ==
    CASE cmd.kind = "PassThrough" -> PendingPassThrough
      [] cmd.kind = "VendorSpecific" -> PendingVendorDependent(cmd.arg)
      [] cmd.kind = "RegisterNotification" -> PendingNotificationRegistration(cmd.arg)

\* The command code a command with a sender goes out with.
CommandCtype(cmd) ==
    CASE cmd.kind = "PassThrough" -> "Control"
      [] cmd.kind = "VendorSpecific" -> cmd.arg
      [] cmd.kind = "RegisterNotification" -> "Notify"

\* The BTreeMap registered_notifications, from event ids to transaction
\* labels; <<>> is the empty map.
contains_key(reg, event) == event \in DOMAIN reg

insert(reg, event, transaction) ==
    [e \in DOMAIN reg \cup {event} |-> IF e = event THEN transaction ELSE reg[e]]

remove(reg, event) ==
    IF DOMAIN reg \ {event} = {} THEN <<>>
    ELSE [e \in DOMAIN reg \ {event} |-> reg[e]]

\* The Either2::B(Some(cmd)) arm of State::run with a free slot.
RunCommand(cmd, transaction, tx, vol, reg, sendOk) ==
    IF cmd.kind = "UpdatedVolume"
    THEN LET new_volume == Quantize(cmd.arg)
         IN  IF new_volume # vol
             THEN IF contains_key(reg, VolumeChanged)
                  THEN Outcome(tx, new_volume, remove(reg, VolumeChanged),
                               SentWith(sendOk, reg[VolumeChanged], "Changed",
                                        "RegisterNotification",
                                        <<VolumeChanged, new_volume>>), "-", "-")
                  ELSE Outcome(tx, new_volume, reg, <<>>, "-", "-")
             ELSE Outcome(tx, vol, reg, <<>>, "-", "-")
    ELSE Outcome(IF sendOk THEN [tx EXCEPT ![transaction] = PendingSlot(cmd)] ELSE tx,
                 vol, reg, Sent(sendOk, transaction, CommandCtype(cmd), cmd.kind), "-", "-")

\* State::process_command: [err, volume, reg, sent, event]; err is "-" for Ok(()).
CommandResult(err, vol, reg, sent, event) ==
    [err |-> err, volume |-> vol, reg |-> reg, sent |-> sent, event |-> event]

\* Event::VolumeChanged (its value is left out).
VolumeChangedEvent == "VolumeChanged"

\* The ensure! on the event of RegisterNotification, without its condition.
SupportedEvent_Any(event) == TRUE

\* The events a peer can register for.
SupportedEvent(event) == event = VolumeChanged

process_command(transaction, pdu, parameters, vol, reg, sendOk) ==
    CASE pdu = "GetCapabilities" ->
            IF Len(parameters) # 1 THEN CommandResult("ParseError", vol, reg, <<>>, "-")
            ELSE IF parameters[1] \in {COMPANY_ID_CAPABILITY, EVENTS_SUPPORTED_CAPABILITY}
            THEN CommandResult("-", vol, reg, Sent(sendOk, transaction, "Implemented", pdu), "-")
            ELSE CommandResult("InvalidParameter", vol, reg, <<>>, "-")
      [] pdu = "RegisterNotification" ->
            IF Len(parameters) # 5 THEN CommandResult("ParseError", vol, reg, <<>>, "-")
            ELSE IF contains_key(reg, parameters[1])
            THEN CommandResult("InternalError", vol, reg, <<>>, "-")
            ELSE IF ~SupportedEvent(parameters[1])
            THEN CommandResult("InvalidParameter", vol, reg, <<>>, "-")
            ELSE CommandResult("-", vol, insert(reg, parameters[1], transaction),
                               SentWith(sendOk, transaction, "Interim", pdu,
                                        <<parameters[1], vol>>), "-")
      [] pdu \in {"RequestContinuingResponse", "AbortContinuingResponse"} ->
            CommandResult("-", vol, reg, <<>>, "-")
      [] pdu = "SetAbsoluteVolume" ->
            IF Len(parameters) < 1 THEN CommandResult("ParseError", vol, reg, <<>>, "-")
            ELSE LET v == IF parameters[1] < MAX_VOLUME THEN parameters[1] ELSE MAX_VOLUME
                 IN  IF Len(parameters) > 1 THEN CommandResult("ParseError", v, reg, <<>>, "-")
                     ELSE CommandResult("-", v, reg,
                                        SentWith(sendOk, transaction, "Accepted", pdu, <<v>>),
                                        VolumeChangedEvent)
      [] OTHER -> CommandResult("InvalidCommand", vol, reg, <<>>, "-")

\* The answer a pending transaction's sender gets for a response code.
PassThroughReply(ctype) ==
    CASE ctype = "Accepted" -> "Ok"
      [] ctype = "Rejected" -> "Rejected"
      [] ctype = "NotImplemented" -> "NotImplemented"
      [] OTHER -> "InvalidReturnData"

ControlReply(ctype) ==
    CASE ctype = "NotImplemented" -> "NotImplemented"
      [] ctype = "Accepted" -> "Ok"
      [] ctype = "Rejected" -> "Rejected"
      [] OTHER -> "InvalidReturnData"

\* StatusReply with the arms of a Control command.
StatusReply_AsControl(ctype) == ControlReply(ctype)

StatusReply(ctype) ==
    CASE ctype = "NotImplemented" -> "NotImplemented"
      [] ctype = "Implemented" -> "Ok"
      [] ctype = "Rejected" -> "Rejected"
      [] ctype = "InTransition" -> "Busy"
      [] OTHER -> "InvalidReturnData"

NotificationReply(ctype) ==
    CASE ctype = "NotImplemented" -> "NotImplemented"
      [] ctype = "Rejected" -> "Rejected"
      [] ctype = "Interim" -> "Ok"
      [] OTHER -> "InvalidReturnData"

\* The CommandStatus::Complete arm for a vendor dependent response.
\* parseOk: the EventId and the event parser accept the parameters; the Event
\* the parser returns is named after the parser.
\* VendorResponse completing whatever slot the label addresses.
VendorResponse_TakesAny(m, tx, vol, reg, parseOk) ==
    Outcome([tx EXCEPT ![m.transaction_label] = Empty], vol, reg, <<>>,
            ControlReply(m.ctype), "-")

VendorResponse(m, tx, vol, reg, parseOk) ==
    LET l == m.transaction_label
        transaction == tx[l]
        taken == [tx EXCEPT ![l] = take_sender(transaction)]
    IN
    CASE transaction.tag = "PendingVendorDependent" /\ transaction.code = "Control" ->
            IF m.ctype = "Interim" THEN Outcome(tx, vol, reg, <<>>, "-", "-")
            ELSE Outcome(taken, vol, reg, <<>>, ControlReply(m.ctype), "-")
      [] transaction.tag = "PendingVendorDependent" /\ transaction.code = "Status" ->
            Outcome(taken, vol, reg, <<>>, StatusReply(m.ctype), "-")
      [] transaction.tag = "PendingVendorDependent" ->
            Outcome([tx EXCEPT ![l] = Empty], vol, reg, <<>>, "-", "-")
      [] transaction.tag = "PendingNotificationRegistration" ->
            Outcome(taken, vol, reg, <<>>, NotificationReply(m.ctype), "-")
      [] transaction.tag = "WaitingForChange" ->
            Outcome([tx EXCEPT ![l] = Empty], vol, reg, <<>>, "-",
                    IF m.ctype # "Changed" THEN "-"
                    ELSE IF parseOk THEN transaction.code ELSE "unparsed")
      [] OTHER -> Outcome(tx, vol, reg, <<>>, "-", "-")

\* IncompleteResponse giving up the transaction of the fragment.
IncompleteResponse_Resolves(m, tx, vol, reg, sendOk) ==
    Outcome([tx EXCEPT ![m.transaction_label] = Empty], vol, reg,
            SentWith(sendOk, m.transaction_label, "Control", "RequestContinuingResponse",
                     <<m.pdu>>), "-", "-")

\* The CommandStatus::Incomplete(pdu) arm: ask for the next fragment.
IncompleteResponse(m, tx, vol, reg, sendOk) ==
    Outcome(tx, vol, reg,
            SentWith(sendOk, m.transaction_label, "Control", "RequestContinuingResponse",
                     <<m.pdu>>), "-", "-")

\* State::process_message. m: the AVCTP message with its AV/C frame read:
\* company is "sig", "other" or "short" (no u24 left), status what the
\* assembler makes of the rest ("Complete", "Incomplete", "Error").
process_message(m, tx, vol, reg, sendOk, parseOk) ==
    LET l == m.transaction_label IN
    CASE m.opcode = "VendorDependent" ->
            IF m.subunit # PANEL \/ m.company # "sig" \/ m.status = "Error"
            THEN NotImplemented(tx, vol, reg)
            ELSE IF is_response(m.ctype)
            THEN IF m.status = "Complete" THEN VendorResponse(m, tx, vol, reg, parseOk)
                 ELSE IncompleteResponse(m, tx, vol, reg, sendOk)
            ELSE IF m.status = "Complete"
            THEN LET r == process_command(l, m.pdu, m.parameters, vol, reg, sendOk)
                 IN  Outcome(tx, r.volume, r.reg,
                             IF r.err = "-" THEN r.sent
                             ELSE SentWith(sendOk, l, "Rejected", m.pdu, <<r.err>>),
                             "-", r.event)
            ELSE Outcome(tx, vol, reg, <<>>, "-", "-")
      [] m.opcode = "UnitInfo" ->
            IF m.ctype # "Status" \/ m.subunit # UNIT_INFO THEN NotImplemented(tx, vol, reg)
            ELSE Outcome(tx, vol, reg,
                         send_avc(sendOk, l, "Implemented", UNIT_INFO, "UnitInfo", <<>>),
                         "-", "-")
      [] m.opcode = "SubunitInfo" ->
            IF m.ctype # "Status" \/ m.subunit # UNIT_INFO \/ m.parameters = <<>>
            THEN NotImplemented(tx, vol, reg)
            ELSE Outcome(tx, vol, reg,
                         send_avc(sendOk, l, "Implemented", UNIT_INFO, "SubunitInfo", <<>>),
                         "-", "-")
      [] m.opcode = "PassThrough" ->
            IF m.subunit # PANEL THEN NotImplemented(tx, vol, reg)
            ELSE IF tx[l].tag # "PendingPassThrough" THEN Outcome(tx, vol, reg, <<>>, "-", "-")
            ELSE Outcome([tx EXCEPT ![l] = take_sender(tx[l])], vol, reg, <<>>,
                         PassThroughReply(m.ctype), "-")
      [] OTHER -> NotImplemented(tx, vol, reg)

\* packet.data.clone() once the Frame is read: what follows the frame.
Payload(m) == <<m.company, m.status, m.pdu, m.parameters>>

\* NotImplementedReply answering with an empty frame.
NotImplementedReply_Bare(m, sendOk) ==
    send_avc(sendOk, m.transaction_label, "NotImplemented", PANEL, m.opcode, <<>>)

\* The reply to a command process_message could not handle: the frame with
\* ctype NotImplemented, and the payload.
NotImplementedReply(m, sendOk) ==
    send_avc(sendOk, m.transaction_label, "NotImplemented", m.subunit, m.opcode, Payload(m))

\* The Either2::A(Some(packet)) arm of State::run for a packet with a Frame.
RunInbound(m, tx, vol, reg, sendOk, parseOk) ==
    LET o == process_message(m, tx, vol, reg, sendOk, parseOk)
    IN  IF o.not_implemented /\ ~is_response(m.ctype)
        THEN [o EXCEPT !.sent = NotImplementedReply(m, sendOk)]
        ELSE o

(***************************************************************************)
(* AVRCP actions.                                                          *)
(***************************************************************************)
\* What the last iteration of State::run did: the command or opcode and its
\* ctype, the label, the answer given to a sender, the messages sent, what
\* became of the event ("-", "unparsed", "queued", "dropped"), whether
\* send_msg failed and the command or message taken (<<>>, <<cmd>> or <<m>>).
AvrcpLast(kind, cmd, label, answer, sent) ==
    [kind |-> kind, cmd |-> cmd, label |-> label, answer |-> answer, sent |-> sent,
     ctype |-> "-", event |-> "-", send_failed |-> FALSE, msg |-> <<>>]

\* trigger_event making room by dropping the oldest event.
trigger_event_DropOldest(queue, event) ==
    IF event \in {"-", "unparsed"} THEN queue
    ELSE IF Len(queue) >= EventCapacity THEN Append(Tail(queue), event)
    ELSE Append(queue, event)

\* Events::try_send of trigger_event: a full mailbox drops the event.
\* event: "-" (no call), "unparsed" (the parser failed, no call) or the event.
trigger_event(queue, event) ==
    IF event \in {"-", "unparsed"} \/ Len(queue) >= EventCapacity
    THEN queue
    ELSE Append(queue, event)

\* What try_send made of the event.
try_send(queue, event) ==
    CASE event \in {"-", "unparsed"} -> event
      [] Len(queue) >= EventCapacity -> "dropped"
      [] OTHER -> "queued"

\* The verdicts of send_msg that matter: it can only fail when it is called.
SendVerdicts(sent) == IF sent # <<>> THEN BOOLEAN ELSE {TRUE}

\* IsNotify taking every VendorSpecific command.
IsNotify_AnyVendor(cmd) == cmd.kind = "VendorSpecific"

\* A VendorSpecific command the debug_assert! of State::run is about.
IsNotify(cmd) == cmd.kind = "VendorSpecific" /\ cmd.arg = "Notify"

\* commands.recv() yields cmd.
UserCommand(cmd, sendOk) ==
    /\ avrcp_pc = "running"
    /\ \E transaction \in {position_is_free(outstanding_transactions)} :
         IF transaction = <<>>
         THEN /\ sendOk
              /\ avrcp_last' = [AvrcpLast("command", cmd.kind, <<>>,
                                          IF into_response_sender(cmd)
                                          THEN "NoTransactionIdAvailable" ELSE "-", <<>>)
                                  EXCEPT !.msg = <<cmd>>]
              /\ UNCHANGED <<outstanding_transactions, volume, registered_notifications,
                             accepted_volume, interim_sent, build>>
         ELSE /\ sendOk \in SendVerdicts(RunCommand(cmd, transaction[1],
                                outstanding_transactions, volume,
                                registered_notifications, TRUE).sent)
              /\ IF IsNotify(cmd)
                 THEN build \in {"any", "release"} /\ build' = "release"
                 ELSE UNCHANGED build
              /\ \E o \in {RunCommand(cmd, transaction[1], outstanding_transactions, volume,
                                      registered_notifications, sendOk)} :
                   /\ outstanding_transactions' = o.tx
                   /\ volume' = o.volume
                   /\ registered_notifications' = o.reg
                   /\ accepted_volume' = IF cmd.kind = "UpdatedVolume"
                                         THEN Quantize(cmd.arg) ELSE accepted_volume
                   /\ interim_sent' = IF o.reg = <<>> THEN <<>> ELSE interim_sent
                   /\ avrcp_last' = [AvrcpLast("command", cmd.kind, transaction, o.answer,
                                               o.sent)
                                       EXCEPT !.ctype = IF cmd.kind = "UpdatedVolume" THEN "-"
                                                        ELSE CommandCtype(cmd),
                                              !.msg = <<cmd>>,
                                              !.send_failed = ~sendOk]
    /\ UNCHANGED <<events, avrcp_pc>>

\* commands.recv() yields VendorSpecific(Notify, ..) in a build with
\* debug_assertions: with a free slot found, debug_assert! panics the task.
UserCommandAssert(cmd) ==
    /\ avrcp_pc = "running"
    /\ IsNotify(cmd)
    /\ position_is_free(outstanding_transactions) # <<>>
    /\ build \in {"any", "debug"}
    /\ build' = "debug"
    /\ avrcp_pc' = "panicked"
    /\ avrcp_last' = [AvrcpLast("debug_assert", cmd.kind, <<>>, "-", <<>>)
                        EXCEPT !.ctype = cmd.arg, !.msg = <<cmd>>]
    /\ UNCHANGED <<outstanding_transactions, volume, registered_notifications, events,
                   accepted_volume, interim_sent>>

\* avctp.read() yields a message whose Frame can be read.
InboundMessage(m, sendOk, parseOk) ==
    /\ avrcp_pc = "running"
    /\ \E o \in {RunInbound(m, outstanding_transactions, volume, registered_notifications,
                             sendOk, parseOk)} :
           /\ outstanding_transactions' = o.tx
           /\ volume' = o.volume
           /\ registered_notifications' = o.reg
           /\ events' = trigger_event(events, o.event)
           /\ accepted_volume' = IF o.event = VolumeChangedEvent THEN o.volume
                                 ELSE accepted_volume
           /\ interim_sent' = IF o.reg = registered_notifications THEN interim_sent
                              ELSE IF o.sent # <<>> THEN o.reg ELSE <<>>
           /\ avrcp_last' = [AvrcpLast("inbound", m.opcode, <<m.transaction_label>>,
                                       o.answer, o.sent)
                               EXCEPT !.ctype = m.ctype,
                                      !.msg = <<m>>,
                                      !.event = try_send(events, o.event),
                                      !.send_failed = ~sendOk]
    /\ UNCHANGED <<avrcp_pc, build>>

\* avctp.read() yields a message too short for a Frame: it is dropped.
InboundUnparsed ==
    /\ avrcp_pc = "running"
    /\ avrcp_last' = AvrcpLast("unparsed", "-", <<>>, "-", <<>>)
    /\ UNCHANGED <<outstanding_transactions, volume, registered_notifications, events,
                   avrcp_pc, accepted_volume, interim_sent, build>>

\* avctp.read() or commands.recv() yields None: the loop breaks and the
\* State with its senders is dropped.
AvrcpClosed ==
    /\ avrcp_pc = "running"
    /\ avrcp_pc' = "ended"
    /\ avrcp_last' = AvrcpLast("closed", "-", <<>>, "-", <<>>)
    /\ UNCHANGED <<outstanding_transactions, volume, registered_notifications, events,
                   accepted_volume, interim_sent, build>>

\* The application takes an event from AvrcpSession.events.
EventRecv ==
    /\ events # <<>>
    /\ events' = Tail(events)
    /\ avrcp_last' = AvrcpLast("event_recv", "-", <<>>, "-", <<>>)
    /\ UNCHANGED <<outstanding_transactions, volume, registered_notifications, avrcp_pc,
                   accepted_volume, interim_sent, build>>

\* The connection handles control channels come in on.
ControlHandles == {64, 65}

\* Avrcp::handle_control for a channel on the handle h. acceptOk: the result
\* of channel.accept_connection().
HandleControl(h, acceptOk) ==
    /\ control[h].channels < MaxChannels
    /\ IF h \notin existing_connections
       THEN /\ existing_connections' = existing_connections \cup {h}
            /\ IF acceptOk
               THEN /\ control' = [control EXCEPT ![h] = [pc |-> "configuring",
                                                          channels |-> @.channels + 1]]
                    /\ control_last' = [kind |-> "spawned", handle |-> h]
               ELSE /\ control' = [control EXCEPT ![h].channels = @ + 1]
                    /\ control_last' = [kind |-> "accept_failed", handle |-> h]
       ELSE /\ acceptOk
            /\ control' = [control EXCEPT ![h].channels = @ + 1]
            /\ control_last' = [kind |-> "rejected", handle |-> h]
            /\ UNCHANGED existing_connections

\* The spawned task: channel.configure(), then the State and the
\* AvrcpSession given to session_handler.
ControlConfigure(h, ok) ==
    /\ control[h].pc = "configuring"
    /\ control' = [control EXCEPT ![h].pc = IF ok THEN "running" ELSE "none"]
    /\ control_last' = [kind |-> IF ok THEN "session_started" ELSE "configure_failed",
                        handle |-> h]
    /\ UNCHANGED existing_connections

\* state.run() of the task comes to its end: it returns and the task removes
\* the handle, or it panics (debug_assert!) and the task is gone.
ControlRun(h, outcome) ==
    /\ control[h].pc = "running"
    /\ control' = [control EXCEPT ![h].pc = "none"]
    /\ existing_connections' = IF outcome = "returned" THEN existing_connections \ {h}
                               ELSE existing_connections
    /\ control_last' = [kind |-> outcome, handle |-> h]

AvrcpInit ==
    /\ existing_connections = {}
    /\ control = [h \in ControlHandles |-> [pc |-> "none", channels |-> 0]]
    /\ control_last = [kind |-> "none", handle |-> 0]
    /\ outstanding_transactions = [i \in TransactionLabels |-> Empty]
    /\ volume = MAX_VOLUME
    /\ registered_notifications = <<>>
    /\ events = <<>>
    /\ avrcp_pc = "running"
    /\ avrcp_last = AvrcpLast("none", "-", <<>>, "-", <<>>)
    /\ accepted_volume = MAX_VOLUME
    /\ interim_sent = <<>>
    /\ build = "any"

\* A complete vendor dependent response: the frame process_message hands to
\* the match over the transaction slot.
CompleteResponse(m) ==
    /\ m.opcode = "VendorDependent"
    /\ m.subunit = PANEL
    /\ m.company = "sig"
    /\ m.status = "Complete"
    /\ is_response(m.ctype)

\* The labels the peer uses for what it sends.
PeerLabels == {0, 15}

AvcMessage(label, ctype, subunit, opcode, company, status, pdu, parameters) ==
    [transaction_label |-> label, ctype |-> ctype, subunit |-> subunit, opcode |-> opcode,
     company |-> company, status |-> status, pdu |-> pdu, parameters |-> parameters]

\* Responses of the peer to the commands of this side.
PeerResponses ==
    {AvcMessage(l, c, PANEL, "PassThrough", "-", "-", "-", <<>>) :
        l \in PeerLabels, c \in {"Accepted", "Rejected", "NotImplemented", "Interim"}}
    \cup {AvcMessage(l, c, PANEL, "VendorDependent", "sig", "Complete", "-", <<>>) :
        l \in PeerLabels, c \in ResponseCodes}
    \cup {AvcMessage(l, "Accepted", PANEL, "VendorDependent", "sig", s,
                     "GetElementAttributes", <<>>) :
        l \in PeerLabels, s \in {"Incomplete", "Error"}}
    \cup {AvcMessage(l, "Accepted", su, "VendorDependent", co, "Complete", "-", <<>>) :
        l \in PeerLabels, su \in {PANEL, UNIT_INFO}, co \in {"sig", "other"}}

\* PassThrough command frames of the peer (keys in the reverse direction).
PeerKeyCommands ==
    {AvcMessage(l, "Control", PANEL, "PassThrough", "-", "-", "-", <<>>) : l \in PeerLabels}

\* Commands of the peer.
PeerCommands ==
    {AvcMessage(15, "Control", PANEL, "PassThrough", "-", "-", "-", <<>>)}
    \cup {AvcMessage(15, "Notify", PANEL, "VendorDependent", "sig", "Complete",
                     "RegisterNotification", p) :
            p \in {<<VolumeChanged, 0, 0, 0, 0>>, <<1, 0, 0, 0, 0>>, <<VolumeChanged>>}}
    \cup {AvcMessage(15, "Control", PANEL, "VendorDependent", "sig", "Complete",
                     "SetAbsoluteVolume", p) : p \in {<<64>>, <<200>>, <<>>, <<64, 0>>}}
    \cup {AvcMessage(15, "Status", PANEL, "VendorDependent", "sig", "Complete",
                     "GetCapabilities", p) : p \in {<<COMPANY_ID_CAPABILITY>>, <<9>>}}
    \cup {AvcMessage(15, "Control", PANEL, "VendorDependent", "sig", "Complete", pdu, <<>>) :
            pdu \in {"RequestContinuingResponse", "GetElementAttributes"}}
    \cup {AvcMessage(15, c, su, "UnitInfo", "-", "-", "-", <<>>) :
            c \in {"Status", "Control"}, su \in {UNIT_INFO, PANEL}}
    \cup {AvcMessage(15, "Status", UNIT_INFO, "SubunitInfo", "-", "-", "-", p) :
            p \in {<<0>>, <<>>}}
    \cup {AvcMessage(15, "Control", PANEL, "Other", "-", "-", "-", <<>>)}

\* Responses of the peer that no command of this side asked for: of another
\* subunit, or with an opcode this side does not know.
UnsupportedResponses ==
    {AvcMessage(15, "Accepted", UNIT_INFO, "VendorDependent", "sig", "Complete", "-", <<>>),
     AvcMessage(15, "Accepted", PANEL, "Other", "-", "-", "-", <<>>)}

\* The verdicts of the event parser that matter for m: it only runs on a
\* Changed response.
ParseVerdicts(m) == IF m.ctype = "Changed" THEN BOOLEAN ELSE {TRUE}

\* The peer reports a change or sets the volume only while fewer than
\* MaxBacklog events wait for the application.
Timely(m) ==
    (m.ctype = "Changed" \/ m.pdu = "SetAbsoluteVolume") => Len(events) < MaxBacklog

\* A command other than PassThrough goes into one of the first MaxMixed
\* slots (or meets a full table).
Admissible(cmd) ==
    cmd.kind \in {"VendorSpecific", "RegisterNotification"} =>
        LET free == {i \in TransactionLabels : is_free(outstanding_transactions[i])}
        IN  free = {} \/ \E i \in free : i < MaxMixed

AvctpInit ==
    /\ assembler = <<>>
    /\ avctp_closed = FALSE
    /\ avctp_in = <<>>
    /\ avctp_ret = <<>>
    /\ avctp_sent = <<>>
    /\ wire = <<>>
    /\ wire_msg = <<>>

Init == AvctpInit /\ AvdtpInit /\ AvrcpInit

\* The channel delivers packets of the peer's making, or the fragments of a
\* message one after the other.
NextAvctp ==
    \/ (\E packet \in AvctpPackets : wire = <<>> /\ AvctpRead(packet))
            /\ wire' = <<>> /\ wire_msg' = <<>> /\ UNCHANGED <<avdtp_vars, avrcp_vars, control_vars>>
    \/ AvctpReadClosed
            /\ wire' = <<>> /\ wire_msg' = <<>> /\ UNCHANGED <<avdtp_vars, avrcp_vars, control_vars>>
    \/ (\E m \in WireMessages, mtu \in 1..MaxData : PeerFragments(m, mtu))
            /\ UNCHANGED <<avdtp_vars, avrcp_vars, control_vars>>
    \/ (\E m \in WireMessages : AvctpSendMsg(m)) /\ UNCHANGED <<avdtp_vars, avrcp_vars, control_vars>>
    \/ WireDeliver /\ UNCHANGED <<avdtp_vars, avrcp_vars, control_vars>>

SpecAvctp == Init /\ [][NextAvctp]_vars

NextAvdtp ==
    \/ (\E h \in Handles : OnConnectionNew(h)) /\ UNCHANGED <<avctp_vars, avrcp_vars, control_vars>>
    \/ (\E h \in Handles : OnConnectionExisting(h)) /\ UNCHANGED <<avctp_vars, avrcp_vars, control_vars>>
    \/ (\E ok \in BOOLEAN : SessionConfigure(ok)) /\ UNCHANGED <<avctp_vars, avrcp_vars, control_vars>>
    \/ (\E msg \in SignalMessages : \E capsOk \in CapsVerdicts(msg) :
            SignalPacket(msg, capsOk)) /\ UNCHANGED <<avctp_vars, avrcp_vars, control_vars>>
    \/ SignalSkipped /\ UNCHANGED <<avctp_vars, avrcp_vars, control_vars>>
    \/ (\E sendOk \in BOOLEAN : LoopBack(sendOk)) /\ UNCHANGED <<avctp_vars, avrcp_vars, control_vars>>
    \/ SignalClosed /\ UNCHANGED <<avctp_vars, avrcp_vars, control_vars>>
    \/ (\E i \in 1..Len(streams) : StreamEnded(i)) /\ UNCHANGED <<avctp_vars, avrcp_vars, control_vars>>
    \/ Rendezvous /\ UNCHANGED <<avctp_vars, avrcp_vars, control_vars>>
    \/ (\E h \in Handles : SessionCleanup(h)) /\ UNCHANGED <<avctp_vars, avrcp_vars, control_vars>>
    \/ (\E t \in 1..Len(tasks), ok \in BOOLEAN : TaskConfigure(t, ok)) /\ UNCHANGED <<avctp_vars, avrcp_vars, control_vars>>
    \/ (\E t \in 1..Len(tasks) : TaskTake(t)) /\ UNCHANGED <<avctp_vars, avrcp_vars, control_vars>>
    \/ (\E t \in 1..Len(tasks) : TaskSend(t)) /\ UNCHANGED <<avctp_vars, avrcp_vars, control_vars>>

SpecAvdtp == Init /\ [][NextAvdtp]_vars

\* One iteration of State::run for a message of the set msgs.
Inbound(msgs) ==
    \E m \in msgs : \E parseOk \in ParseVerdicts(m) :
    \E sendOk \in SendVerdicts(RunInbound(m, outstanding_transactions, volume,
                                          registered_notifications, TRUE, parseOk).sent) :
        InboundMessage(m, sendOk, parseOk)

\* The commands of the application that carry a sender, with one parser.
ControllerCommands ==
    {c \in AvrcpCommands : c.kind \in {"PassThrough", "VendorSpecific"}}
    \cup {[kind |-> "RegisterNotification", arg |-> "parser_a"]}

\* The session as controller: the application's commands and the peer's
\* responses to them.
NextAvrcp ==
    \/ (\E cmd \in ControllerCommands, sendOk \in BOOLEAN :
            Admissible(cmd) /\ UserCommand(cmd, sendOk)) /\ UNCHANGED <<avctp_vars, avdtp_vars, control_vars>>
    \/ Inbound({m \in PeerResponses \cup PeerKeyCommands : Timely(m)})
            /\ UNCHANGED <<avctp_vars, avdtp_vars, control_vars>>
    \/ InboundUnparsed /\ UNCHANGED <<avctp_vars, avdtp_vars, control_vars>>
    \/ AvrcpClosed /\ UNCHANGED <<avctp_vars, avdtp_vars, control_vars>>
    \/ EventRecv /\ UNCHANGED <<avctp_vars, avdtp_vars, control_vars>>

SpecAvrcp == Init /\ [][NextAvrcp]_vars

\* The control channels of the peers and the session tasks they start.
NextAvrcpControl ==
    \/ (\E h \in ControlHandles, acceptOk \in BOOLEAN : HandleControl(h, acceptOk))
            /\ UNCHANGED <<avctp_vars, avdtp_vars, avrcp_vars>>
    \/ (\E h \in ControlHandles, ok \in BOOLEAN : ControlConfigure(h, ok))
            /\ UNCHANGED <<avctp_vars, avdtp_vars, avrcp_vars>>
    \/ (\E h \in ControlHandles, outcome \in {"returned", "panicked"} : ControlRun(h, outcome))
            /\ UNCHANGED <<avctp_vars, avdtp_vars, avrcp_vars>>

SpecAvrcpControl == Init /\ [][NextAvrcpControl]_vars

\* The session as target: the peer's commands and the application's volume.
NextAvrcpTarget ==
    \/ (\E cmd \in {c \in AvrcpCommands : c.kind \in {"UpdatedVolume", "PassThrough"}},
            sendOk \in BOOLEAN :
            UserCommand(cmd, sendOk)) /\ UNCHANGED <<avctp_vars, avdtp_vars, control_vars>>
    \/ Inbound({m \in PeerCommands \cup UnsupportedResponses : Timely(m)})
            /\ UNCHANGED <<avctp_vars, avdtp_vars, control_vars>>
    \/ InboundUnparsed /\ UNCHANGED <<avctp_vars, avdtp_vars, control_vars>>
    \/ AvrcpClosed /\ UNCHANGED <<avctp_vars, avdtp_vars, control_vars>>
    \/ EventRecv /\ UNCHANGED <<avctp_vars, avdtp_vars, control_vars>>

SpecAvrcpTarget == Init /\ [][NextAvrcpTarget]_vars

\* The peer sets the volume while fewer than MaxVolumeEvents of the queued
\* events are VolumeChanged, or when the mailbox is full.
Sparse(m) ==
    m.pdu = "SetAbsoluteVolume" =>
        \/ Len(events) = EventCapacity
        \/ Cardinality({i \in 1..Len(events) : events[i] = VolumeChangedEvent})
               < MaxVolumeEvents

\* The session filling the event mailbox: notifications the application
\* registered for (label 0) and the volume the peer sets.
NextAvrcpEvents ==
    \/ (\E sendOk \in BOOLEAN :
            /\ Admissible([kind |-> "RegisterNotification", arg |-> "parser_a"])
            /\ UserCommand([kind |-> "RegisterNotification", arg |-> "parser_a"], sendOk))
            /\ UNCHANGED <<avctp_vars, avdtp_vars, control_vars>>
    \/ Inbound({m \in PeerResponses : /\ CompleteResponse(m)
                                      /\ m.transaction_label = 0
                                      /\ m.ctype \in {"Interim", "Changed"}})
            /\ UNCHANGED <<avctp_vars, avdtp_vars, control_vars>>
    \/ Inbound({m \in PeerCommands : /\ m.pdu = "SetAbsoluteVolume"
                                     /\ m.parameters = <<64>>
                                     /\ Sparse(m)})
            /\ UNCHANGED <<avctp_vars, avdtp_vars, control_vars>>
    \/ InboundUnparsed /\ UNCHANGED <<avctp_vars, avdtp_vars, control_vars>>
    \/ AvrcpClosed /\ UNCHANGED <<avctp_vars, avdtp_vars, control_vars>>
    \/ EventRecv /\ UNCHANGED <<avctp_vars, avdtp_vars, control_vars>>

SpecAvrcpEvents == Init /\ [][NextAvrcpEvents]_vars

\* The vendor dependent commands of the application: VendorSpecific, Notify
\* included, and RegisterNotification.
VendorCommands ==
    {[kind |-> "VendorSpecific", arg |-> c] : c \in {"Control", "Status", "Notify"}}
    \cup {c \in AvrcpCommands : c.kind = "RegisterNotification"}

\* The session with vendor dependent commands in a debug or release build.
NextAvrcpVendor ==
    \/ (\E cmd \in VendorCommands, sendOk \in BOOLEAN :
            Admissible(cmd) /\ UserCommand(cmd, sendOk)) /\ UNCHANGED <<avctp_vars, avdtp_vars, control_vars>>
    \/ (\E cmd \in VendorCommands : Admissible(cmd) /\ UserCommandAssert(cmd))
            /\ UNCHANGED <<avctp_vars, avdtp_vars, control_vars>>
    \/ Inbound({m \in PeerResponses : CompleteResponse(m) /\ Timely(m)})
            /\ UNCHANGED <<avctp_vars, avdtp_vars, control_vars>>
    \/ InboundUnparsed /\ UNCHANGED <<avctp_vars, avdtp_vars, control_vars>>
    \/ AvrcpClosed /\ UNCHANGED <<avctp_vars, avdtp_vars, control_vars>>
    \/ EventRecv /\ UNCHANGED <<avctp_vars, avdtp_vars, control_vars>>

SpecAvrcpVendor == Init /\ [][NextAvrcpVendor]_vars

(***************************************************************************)
(* Claims                                                                  *)
(***************************************************************************)

\* C1: a completely assembled message whose profile_id is not accepted is
\* never returned; if it is a Command exactly one ResponseInvalidProfile with
\* the same transaction_label and profile_id and empty data is sent, otherwise
\* nothing is sent. A message of an accepted profile is returned unchanged
\* and nothing is sent.
C1_ProfileFilter ==
    avctp_in # <<>> =>
        LET m == avctp_in[1] IN
        IF m.profile_id \in profile_ids
        THEN avctp_ret = <<m>> /\ avctp_sent = <<>>
        ELSE /\ avctp_ret = <<>>
             /\ m.message_type = "Command" =>
                    /\ Len(avctp_sent) = 1
                    /\ avctp_sent[1].message_type = "ResponseInvalidProfile"
                    /\ avctp_sent[1].transaction_label = m.transaction_label
                    /\ avctp_sent[1].profile_id = m.profile_id
                    /\ avctp_sent[1].data = <<>>
             /\ m.message_type # "Command" => avctp_sent = <<>>

\* A reassembled Command of profile 0x1234 has been answered.
C1_Witness ==
    /\ avctp_in # <<>>
    /\ avctp_in[1].profile_id \notin profile_ids
    /\ avctp_in[1].message_type = "Command"
    /\ Len(avctp_in[1].data) = 2
    /\ Len(avctp_sent) = 1

\* The stream of seid in the list ss, as a set (empty: none).
StreamsOf(ss, seid) == {ss[i] : i \in {j \in 1..Len(ss) : ss[j].local_endpoint = seid}}

\* The last step dispatched the signal sig.
Dispatched(sig) == last.kind = "signal" /\ last.msg.signal_identifier = sig

\* C2: the stream list holds at most one Stream per local seid; a
\* SetConfiguration (acp_seid and int_seid present) for a seid that has a
\* stream is rejected with ServiceCategory Unknown and BadState, one for a seid
\* without local endpoint with BadAcpSeid, both leaving the list unchanged; a
\* step adds a stream only if it is an accepted SetConfiguration.
C2_OneStreamPerSeid ==
    /\ \A i, j \in 1..Len(streams) :
            i # j => streams[i].local_endpoint # streams[j].local_endpoint
    /\ (Dispatched("SetConfiguration") /\ Len(last.msg.data) >= 2) =>
            LET acp_seid == last.msg.data[1] \div 4 IN
            /\ StreamsOf(last.before, acp_seid) # {} =>
                    /\ last.reply.message_type = "ResponseReject"
                    /\ last.reply.data = ServiceCategoryUnknown \o <<BadState>>
                    /\ streams = last.before
            /\ acp_seid \notin LocalSeids =>
                    /\ last.reply.message_type = "ResponseReject"
                    /\ last.reply.data = ServiceCategoryUnknown \o <<BadAcpSeid>>
                    /\ streams = last.before
    /\ last.kind \in {"signal", "skipped", "stream_ended", "rendezvous"} =>
            \/ \A i \in 1..Len(streams) :
                    StreamsOf(last.before, streams[i].local_endpoint) # {}
            \/ /\ Dispatched("SetConfiguration")
               /\ last.reply.message_type = "ResponseAccept"
               /\ Len(streams) = Len(last.before) + 1

\* A second SetConfiguration for a configured seid has been rejected.
C2_Witness ==
    /\ Dispatched("SetConfiguration")
    /\ Len(last.msg.data) >= 2
    /\ StreamsOf(last.before, last.msg.data[1] \div 4) # {}
    /\ last.reply.message_type = "ResponseReject"
    /\ Len(streams) = 2

\* C3: when the session receives the rendezvoused channel while the stream of
\* the most recently accepted Open is in Opening, that stream is Open
\* afterwards and holds the channel, and the receiver is cleared.
C3_OpenRendezvous ==
    (/\ last.kind = "rendezvous"
     /\ \E st \in StreamsOf(last.before, opened_seid) : st.state = "Opening") =>
        /\ \E st \in StreamsOf(streams, opened_seid) :
                st.state = "Open" /\ st.channel = last.chan
        /\ channel_receiver = 0

\* C4: no channel that arrives on a handle with an entry in pending_streams
\* fails to be published and received: no delivery task panics.
C4_TransportNeverFails ==
    \A t \in 1..Len(tasks) : tasks[t].pc \notin {"panicked_take", "panicked_send"}

\* C5: when the session worker has ended (channel closed, configure failed or
\* the control loop returned an error), the handle has no entry in
\* pending_streams.
C5_EntryRemoved ==
    sess_pc = "done" => \A h \in Handles : pending_streams[h] = 0

\* C6: the signaling loop ends only when a read reports the channel closed; a
\* failed send of a reply does not end it.
C6_SendFailureKeepsSession ==
    sess_pc = "exited" => last.kind = "closed"

\* C7: a completely assembled message that is no Command does not end the
\* session worker.
C7_NonCommandRecovered ==
    last.kind = "assert" => sess_pc \in {"handled", "running"}

\* The seids of a Start/Suspend payload.
ListedSeids(data) == {data[k] \div 4 : k \in 1..Len(data)}

\* C8: a Start listing n >= 1 distinct seids whose streams are all Open is
\* accepted and leaves all of them Streaming; a Suspend listing seids whose
\* streams are all Streaming is accepted and leaves all of them Open.
C8_StartSuspendLists ==
    /\ (/\ Dispatched("Start")
        /\ Len(last.msg.data) >= 1
        /\ Cardinality(ListedSeids(last.msg.data)) = Len(last.msg.data)
        /\ \A s \in ListedSeids(last.msg.data) :
                \E st \in StreamsOf(last.before, s) : st.state = "Open") =>
            /\ last.reply.message_type = "ResponseAccept"
            /\ \A s \in ListedSeids(last.msg.data) :
                    \E st \in StreamsOf(streams, s) : st.state = "Streaming"
    /\ (/\ Dispatched("Suspend")
        /\ Len(last.msg.data) >= 1
        /\ Cardinality(ListedSeids(last.msg.data)) = Len(last.msg.data)
        /\ \A s \in ListedSeids(last.msg.data) :
                \E st \in StreamsOf(last.before, s) : st.state = "Streaming") =>
            /\ last.reply.message_type = "ResponseAccept"
            /\ \A s \in ListedSeids(last.msg.data) :
                    \E st \in StreamsOf(streams, s) : st.state = "Open"

\* C9: every Abort is answered with ResponseAccept whatever its payload;
\* afterwards the addressed seid has no stream and every other stream is as
\* it was.
C9_AbortAlwaysAccepted ==
    Dispatched("Abort") =>
        /\ last.reply.message_type = "ResponseAccept"
        /\ Len(last.msg.data) >= 1 =>
                LET seid == last.msg.data[1] \div 4 IN
                /\ StreamsOf(streams, seid) = {}
                /\ \A s \in LocalSeids \ {seid} : StreamsOf(streams, s) = StreamsOf(last.before, s)

\* The step is an iteration of State::run on a command that carries a sender.
SenderCommandStep ==
    /\ avrcp_last'.kind = "command"
    /\ avrcp_last'.cmd # "UpdatedVolume"
    /\ <<outstanding_transactions, avrcp_last>>' # <<outstanding_transactions, avrcp_last>>

\* The Empty slots of the transaction table.
FreeSlots == {i \in TransactionLabels : outstanding_transactions[i] = Empty}

\* C10: a user command gets the lowest-indexed Empty slot of the table and
\* that index is its transaction label; with all 16 slots non-Empty a command
\* that carries a sender is answered Err(NoTransactionIdAvailable), nothing is
\* sent, the table is unchanged and the loop keeps running.
C10_LowestFreeSlot ==
    [][SenderCommandStep =>
        IF FreeSlots # {}
        THEN LET lowest == CHOOSE i \in FreeSlots : \A j \in FreeSlots : i <= j IN
             /\ avrcp_last'.label = <<lowest>>
             /\ \A k \in 1..Len(avrcp_last'.sent) :
                    avrcp_last'.sent[k].transaction_label = lowest
             /\ \A i \in TransactionLabels \ {lowest} :
                    outstanding_transactions'[i] = outstanding_transactions[i]
             /\ avrcp_last'.sent # <<>> => outstanding_transactions'[lowest] # Empty
             /\ avrcp_last'.answer # "NoTransactionIdAvailable"
        ELSE /\ avrcp_last'.answer = "NoTransactionIdAvailable"
             /\ avrcp_last'.sent = <<>>
             /\ outstanding_transactions' = outstanding_transactions
             /\ avrcp_pc' = "running"]_vars

\* A command was put on the lowest free label while a higher label was free
\* as well.
C10_LowestReached ==
    /\ avrcp_last.kind = "command"
    /\ avrcp_last.label = <<0>>
    /\ avrcp_last.sent # <<>>
    /\ outstanding_transactions[0] # Empty
    /\ outstanding_transactions[14] # Empty
    /\ outstanding_transactions[15] = Empty

\* A command with a sender met a table without an Empty slot.
C10_Witness ==
    /\ avrcp_last.kind = "command"
    /\ avrcp_last.answer = "NoTransactionIdAvailable"
    /\ \A i \in TransactionLabels : outstanding_transactions[i] # Empty
    /\ avrcp_pc = "running"

\* An iteration of State::run that handled a message read from the peer.
InboundStep == avrcp_pc = "running" /\ avrcp_last'.kind = "inbound"

\* C11: a command that is sent occupies exactly the slot of its transaction
\* label; a non-Empty slot is changed only by an inbound message with that
\* label (an allocation never overwrites it), and it becomes Empty only when
\* that message is a response.
C11_SlotHeldUntilResponse ==
    [][\A i \in TransactionLabels :
          /\ (SenderCommandStep /\ outstanding_transactions'[i] # outstanding_transactions[i]) =>
                /\ outstanding_transactions[i] = Empty
                /\ avrcp_last'.label = <<i>>
                /\ \A k \in 1..Len(avrcp_last'.sent) : avrcp_last'.sent[k].transaction_label = i
                /\ \A j \in TransactionLabels \ {i} :
                       outstanding_transactions'[j] = outstanding_transactions[j]
          /\ (outstanding_transactions[i] # Empty
                /\ outstanding_transactions'[i] # outstanding_transactions[i]) =>
                /\ InboundStep
                /\ avrcp_last'.label = <<i>>
                /\ outstanding_transactions'[i] = Empty => is_response(avrcp_last'.ctype)]_vars

\* C12: a complete vendor dependent response with ctype Interim on a slot in
\* PendingNotificationRegistration gives Ok to the command's sender and moves
\* the slot to WaitingForChange with the same parser; a response with ctype
\* Changed on a WaitingForChange slot makes the slot Empty and, when the
\* slot's parser accepts the parameters, its event is appended to the event
\* channel (which has room).
C12_NotificationLifecycle ==
    [][(InboundStep /\ CompleteResponse(avrcp_last'.msg[1])) =>
          LET m == avrcp_last'.msg[1]
              l == m.transaction_label
              slot == outstanding_transactions[l]
          IN  /\ (slot.tag = "PendingNotificationRegistration" /\ m.ctype = "Interim") =>
                    /\ avrcp_last'.answer = "Ok"
                    /\ outstanding_transactions' =
                           [outstanding_transactions EXCEPT ![l] = WaitingForChange(slot.code)]
                    /\ events' = events
              /\ (slot.tag = "WaitingForChange" /\ m.ctype = "Changed") =>
                    /\ avrcp_last'.answer = "-"
                    /\ outstanding_transactions' = [outstanding_transactions EXCEPT ![l] = Empty]
                    /\ (avrcp_last'.event # "unparsed" /\ Len(events) < EventCapacity) =>
                           events' = Append(events, slot.code)]_vars

\* A Changed response has emptied the WaitingForChange slot an Interim made,
\* and the event of the second parser is queued.
C12_Witness ==
    /\ avrcp_last.kind = "inbound"
    /\ avrcp_last.ctype = "Changed"
    /\ avrcp_last.event = "queued"
    /\ avrcp_last.label = <<0>>
    /\ events = <<"parser_b">>
    /\ outstanding_transactions[0] = Empty

\* C13: a complete vendor dependent response with ctype NotImplemented or
\* Rejected on a slot in PendingNotificationRegistration gives an Err to the
\* command's sender and makes the slot Empty.
C13_RefusedRegistrationFreesSlot ==
    [][(InboundStep /\ CompleteResponse(avrcp_last'.msg[1])) =>
          LET m == avrcp_last'.msg[1]
              l == m.transaction_label
          IN  (/\ outstanding_transactions[l].tag = "PendingNotificationRegistration"
               /\ m.ctype \in {"NotImplemented", "Rejected"}) =>
                    /\ avrcp_last'.answer \in {"NotImplemented", "Rejected"}
                    /\ outstanding_transactions'[l] = Empty]_vars

C14_InterimKept ==
    /\ avrcp_last.kind = "inbound"
    /\ CompleteResponse(avrcp_last.msg[1])
    /\ avrcp_last.ctype = "Interim"
    /\ avrcp_last.label = <<0>>
    /\ avrcp_last.answer = "-"
    /\ outstanding_transactions[0] = PendingVendorDependent("Control")

\* A response of the peer that finds no transaction of its kind at its label:
\* a complete vendor dependent response on a slot that is Empty or
\* PendingPassThrough, or a PassThrough response on a slot that is not
\* PendingPassThrough.
Unmatched(m, slot) ==
    \/ CompleteResponse(m) /\ slot.tag \in {"Empty", "PendingPassThrough"}
    \/ /\ m.opcode = "PassThrough"
       /\ m.subunit = PANEL
       /\ is_response(m.ctype)
       /\ slot.tag # "PendingPassThrough"

\* C15: a response whose label addresses an Empty slot or a slot of the wrong
\* kind is dropped: the table, the volume and the registry are unchanged,
\* nothing is sent, nothing is delivered to a sender, no event is queued and
\* the loop goes on.
C15_UnmatchedResponseDropped ==
    [][(InboundStep /\ Unmatched(avrcp_last'.msg[1],
                  outstanding_transactions[avrcp_last'.msg[1].transaction_label])) =>
          /\ UNCHANGED <<outstanding_transactions, volume, registered_notifications, events>>
          /\ avrcp_last'.sent = <<>>
          /\ ~avrcp_last'.send_failed
          /\ avrcp_last'.answer = "-"
          /\ avrcp_pc' = "running"]_vars

\* A vendor dependent Accepted response on label 15 has met a pending
\* PassThrough in slot 15 and left it there.
C15_Witness ==
    /\ avrcp_last.kind = "inbound"
    /\ CompleteResponse(avrcp_last.msg[1])
    /\ avrcp_last.label = <<15>>
    /\ avrcp_last.answer = "-"
    /\ outstanding_transactions[15] = PendingPassThrough
    /\ avrcp_pc = "running"

\* C16: an inbound PassThrough frame whose ctype is a command changes no
\* transaction slot and delivers nothing to a sender; a PassThrough response
\* on a PendingPassThrough slot empties it and delivers Ok for Accepted,
\* Rejected for Rejected, NotImplemented for NotImplemented and
\* InvalidReturnData for any other response ctype.
C16_PassThroughCommandIgnored ==
    [][(InboundStep /\ avrcp_last'.msg[1].opcode = "PassThrough") =>
          LET m == avrcp_last'.msg[1]
              l == m.transaction_label
          IN  /\ ~is_response(m.ctype) =>
                    /\ outstanding_transactions' = outstanding_transactions
                    /\ avrcp_last'.answer = "-"
              /\ (/\ is_response(m.ctype)
                  /\ m.subunit = PANEL
                  /\ outstanding_transactions[l] = PendingPassThrough) =>
                    /\ outstanding_transactions' = [outstanding_transactions EXCEPT ![l] = Empty]
                    /\ avrcp_last'.answer =
                           CASE m.ctype = "Accepted" -> "Ok"
                             [] m.ctype = "Rejected" -> "Rejected"
                             [] m.ctype = "NotImplemented" -> "NotImplemented"
                             [] OTHER -> "InvalidReturnData"]_vars

\* An iteration of State::run that took UpdatedVolume from the application.
UpdatedVolumeStep ==
    /\ avrcp_pc = "running"
    /\ avrcp_last'.kind = "command"
    /\ avrcp_last'.cmd = "UpdatedVolume"

\* C17: with VolumeChanged registered on label t and answered with Interim
\* (VolumeChanged, current volume), an UpdatedVolume whose
\* quantized value differs from the stored volume sends exactly one Changed
\* (VolumeChanged, new volume) on label t (unless send_msg fails) and removes
\* the registration; one whose quantized value equals the stored volume sends
\* nothing and keeps the registration; without a registration nothing is sent.
C17_VolumeNotification ==
    [][UpdatedVolumeStep =>
          LET new_volume == Quantize(avrcp_last'.msg[1].arg)
          IN  IF registered_notifications = <<>>
              THEN avrcp_last'.sent = <<>> /\ registered_notifications' = <<>>
              ELSE IF interim_sent = <<>>
              THEN TRUE
              ELSE IF new_volume # volume
              THEN /\ registered_notifications' = <<>>
                   /\ ~avrcp_last'.send_failed =>
                          avrcp_last'.sent =
                              <<AvrcpMessage(registered_notifications[VolumeChanged], "Changed",
                                             "RegisterNotification",
                                             <<VolumeChanged, new_volume>>)>>
              ELSE /\ avrcp_last'.sent = <<>>
                   /\ registered_notifications' = registered_notifications]_vars

\* The last iteration answered a RegisterNotification with Interim.
InterimSent ==
    /\ avrcp_last.kind = "inbound"
    /\ avrcp_last.sent # <<>>
    /\ avrcp_last.sent[1].ctype = "Interim"

\* C18: the volume reported in the Interim response to RegisterNotification
\* (VolumeChanged) is the value of the most recent accepted SetAbsoluteVolume
\* or UpdatedVolume (MAX_VOLUME when there was none), and the stored volume
\* is within 0..MAX_VOLUME.
C18_InterimReportsAcceptedVolume ==
    /\ volume \in 0..MAX_VOLUME
    /\ InterimSent => avrcp_last.sent[1].parameters = <<VolumeChanged, accepted_volume>>

\* The peer's SetAbsoluteVolume that process_command accepts.
SetVolumeAccepted(m) ==
    /\ m.opcode = "VendorDependent"
    /\ m.subunit = PANEL
    /\ m.company = "sig"
    /\ m.status = "Complete"
    /\ ~is_response(m.ctype)
    /\ m.pdu = "SetAbsoluteVolume"
    /\ Len(m.parameters) = 1

\* C19: an event produced while the mailbox holds EventCapacity events is
\* dropped and the queue is left as it was, and the step that produced it
\* completes as it does with room in the mailbox (SetAbsoluteVolume: volume
\* stored, Accepted sent; Changed: slot emptied) and the loop goes on;
\* with room the event is appended behind the queued ones.
C19_EventDroppedWhenFull ==
    [][InboundStep =>
          LET m == avrcp_last'.msg[1]
              l == m.transaction_label
              slot == outstanding_transactions[l]
              stored == IF Len(events) < EventCapacity THEN Append(events, slot.code)
                        ELSE events
              volumes == IF Len(events) < EventCapacity
                         THEN Append(events, VolumeChangedEvent) ELSE events
          IN  /\ Len(events') <= EventCapacity
              /\ avrcp_pc' = "running"
              /\ SetVolumeAccepted(m) =>
                    /\ events' = volumes
                    /\ volume' = IF m.parameters[1] < MAX_VOLUME THEN m.parameters[1]
                                 ELSE MAX_VOLUME
                    /\ ~avrcp_last'.send_failed =>
                           avrcp_last'.sent = <<AvrcpMessage(l, "Accepted", "SetAbsoluteVolume",
                                                              <<volume'>>)>>
              /\ (/\ CompleteResponse(m)
                  /\ m.ctype = "Changed"
                  /\ slot.tag = "WaitingForChange"
                  /\ avrcp_last'.event # "unparsed") =>
                    /\ events' = stored
                    /\ outstanding_transactions' = [outstanding_transactions EXCEPT ![l] = Empty]]_vars

\* A VolumeChanged event was dropped at a full mailbox that holds events of
\* both kinds, the Accepted reply went out and the loop runs on.
C19_Witness ==
    /\ avrcp_last.kind = "inbound"
    /\ SetVolumeAccepted(avrcp_last.msg[1])
    /\ avrcp_last.event = "dropped"
    /\ avrcp_last.sent # <<>>
    /\ Len(events) = EventCapacity
    /\ events[1] = VolumeChangedEvent
    /\ events[EventCapacity] = "parser_a"
    /\ avrcp_pc = "running"

\* A notification was dropped at a full mailbox and its slot is Empty.
C19_NotificationDropped ==
    /\ avrcp_last.kind = "inbound"
    /\ avrcp_last.ctype = "Changed"
    /\ avrcp_last.event = "dropped"
    /\ Len(events) = EventCapacity
    /\ outstanding_transactions[0] = Empty

\* The iteration that ends State::run.
LoopExit == avrcp_pc = "running" /\ avrcp_pc' # "running"

C20_Panicked ==
    /\ avrcp_pc = "panicked"
    /\ build = "debug"
    /\ avrcp_last.kind = "debug_assert"

\* A release build has sent VendorSpecific(Notify) and holds it in slot 0.
C20_ReleaseSent ==
    /\ avrcp_pc = "running"
    /\ build = "release"
    /\ outstanding_transactions[0] = PendingVendorDependent("Notify")

\* The streams of ss that are in state Opening.
OpeningStreams(ss) == {i \in 1..Len(ss) : is_opening(ss[i])}

\* C21: at most one stream of the session is in state Opening; an accepted
\* Open leaves exactly one.
C21_AtMostOneOpening ==
    /\ Cardinality(OpeningStreams(streams)) <= 1
    /\ (Dispatched("Open") /\ last.reply.message_type = "ResponseAccept") =>
            Cardinality(OpeningStreams(streams)) = 1

\* The first seid of the list data whose lookup or state transition fails
\* when the listed streams are started (or stopped) in order, with its error
\* code; <<>> when every listed seid goes through.
RECURSIVE Offending(_, _, _)
Offending(data, ss, step) ==
    IF data = <<>> THEN <<>>
    ELSE LET seid == ReadSeid(Head(data))
             sink == get_stream(ss, seid)
         IN  IF ~sink.ok THEN <<seid, sink.err>>
             ELSE LET t == IF step = "start" THEN start(ss[sink.idx]) ELSE stop(ss[sink.idx])
                  IN  IF ~t.ok THEN <<seid, t.err>>
                      ELSE Offending(Tail(data), [ss EXCEPT ![sink.idx] = t.stream], step)

\* The last step rejected the command it dispatched.
Rejected == last.kind = "signal" /\ last.reply.message_type = "ResponseReject"

\* C22: a rejected Start or Suspend carries the offending seid and the error
\* code; every other rejected signal carries its error context (nothing, or
\* ServiceCategory Unknown for SetConfiguration and Reconfigure) and the error
\* code, and nothing else.
C22_RejectPayload ==
    Rejected =>
        LET sig == last.msg.signal_identifier
            offending == Offending(last.msg.data, last.before,
                                   IF sig = "Start" THEN "start" ELSE "stop")
        IN  IF sig \in {"Start", "Suspend"}
            THEN /\ Len(last.reply.data) = 2
                 /\ offending # <<>> => last.reply.data = offending
            ELSE IF sig \in {"SetConfiguration", "Reconfigure"}
            THEN /\ Len(last.reply.data) = 2
                 /\ <<last.reply.data[1]>> = ServiceCategoryUnknown
            ELSE Len(last.reply.data) = 1

\* The step handles a RegisterNotification command of the peer that carries
\* an event id and an interval.
PeerRegisterStep ==
    /\ InboundStep
    /\ avrcp_last'.msg[1].opcode = "VendorDependent"
    /\ avrcp_last'.msg[1].pdu = "RegisterNotification"
    /\ ~is_response(avrcp_last'.msg[1].ctype)
    /\ Len(avrcp_last'.msg[1].parameters) = 5

\* C23: a RegisterNotification of the peer is rejected with InvalidParameter
\* for an event other than VolumeChanged and with InternalError when
\* VolumeChanged is already registered, the registry staying as it was and no
\* Interim being sent; otherwise exactly one Interim (VolumeChanged, current
\* volume) goes out on the command's label (unless send_msg fails) and the
\* registry maps VolumeChanged to that label. The registry never holds a key
\* other than VolumeChanged.
C23_PeerRegisterNotification ==
    [][/\ DOMAIN registered_notifications' \subseteq {VolumeChanged}
       /\ PeerRegisterStep =>
            LET m == avrcp_last'.msg[1]
                l == m.transaction_label
                event == m.parameters[1]
                refused(err) ==
                    /\ registered_notifications' = registered_notifications
                    /\ ~avrcp_last'.send_failed =>
                           avrcp_last'.sent =
                               <<AvrcpMessage(l, "Rejected", "RegisterNotification", <<err>>)>>
                    /\ avrcp_last'.send_failed => avrcp_last'.sent = <<>>
            IN  /\ volume' = volume
                /\ outstanding_transactions' = outstanding_transactions
                /\ IF event # VolumeChanged THEN refused("InvalidParameter")
                   ELSE IF VolumeChanged \in DOMAIN registered_notifications
                   THEN refused("InternalError")
                   ELSE /\ DOMAIN registered_notifications' = {VolumeChanged}
                        /\ registered_notifications'[VolumeChanged] = l
                        /\ ~avrcp_last'.send_failed =>
                               avrcp_last'.sent =
                                   <<AvrcpMessage(l, "Interim", "RegisterNotification",
                                                  <<VolumeChanged, volume>>)>>
                        /\ avrcp_last'.send_failed => avrcp_last'.sent = <<>>]_vars

\* A second RegisterNotification (VolumeChanged) of the peer was refused with
\* InternalError while the first registration stands.
C23_Witness ==
    /\ avrcp_last.kind = "inbound"
    /\ avrcp_last.msg # <<>>
    /\ avrcp_last.msg[1].pdu = "RegisterNotification"
    /\ avrcp_last.sent # <<>>
    /\ avrcp_last.sent[1].ctype = "Rejected"
    /\ avrcp_last.sent[1].parameters = <<"InternalError">>
    /\ DOMAIN registered_notifications = {VolumeChanged}

\* The peer registered for VolumeChanged and got its Interim.
C23_Registered ==
    /\ avrcp_last.kind = "inbound"
    /\ avrcp_last.sent # <<>>
    /\ avrcp_last.sent[1].ctype = "Interim"
    /\ avrcp_last.sent[1].parameters = <<VolumeChanged, volume>>
    /\ DOMAIN registered_notifications = {VolumeChanged}

\* The peer was refused an event other than VolumeChanged.
C23_Unsupported ==
    /\ avrcp_last.kind = "inbound"
    /\ avrcp_last.msg[1].pdu = "RegisterNotification"
    /\ avrcp_last.sent # <<>>
    /\ avrcp_last.sent[1].ctype = "Rejected"
    /\ avrcp_last.sent[1].parameters = <<"InvalidParameter">>

\* The tags of the slots a vendor dependent response resolves.
VendorSlots == {"PendingVendorDependent", "PendingNotificationRegistration", "WaitingForChange"}

\* C24: a fragment of a vendor dependent response that leaves the assembler
\* Incomplete makes the stack send exactly one RequestContinuingResponse
\* (ctype Control, parameter the pending pdu) on the fragment's label (unless
\* send_msg fails) and leaves the transaction table as it was; the slot of a
\* vendor dependent transaction changes on an inbound message only when the
\* assembled response is Complete.
C24_ContinuationRequested ==
    [][InboundStep =>
          LET m == avrcp_last'.msg[1]
              l == m.transaction_label
          IN  /\ (/\ m.opcode = "VendorDependent"
                  /\ m.subunit = PANEL
                  /\ m.company = "sig"
                  /\ is_response(m.ctype)
                  /\ m.status = "Incomplete") =>
                     /\ outstanding_transactions' = outstanding_transactions
                     /\ avrcp_last'.answer = "-"
                     /\ ~avrcp_last'.send_failed =>
                            avrcp_last'.sent =
                                <<AvrcpMessage(l, "Control", "RequestContinuingResponse",
                                               <<m.pdu>>)>>
                     /\ avrcp_last'.send_failed => avrcp_last'.sent = <<>>
              /\ \A i \in TransactionLabels :
                    (/\ outstanding_transactions[i].tag \in VendorSlots
                     /\ outstanding_transactions'[i] # outstanding_transactions[i]) =>
                         i = l /\ CompleteResponse(m)]_vars

\* A fragment arrived on a label with a vendor dependent command outstanding
\* and the continuation was requested.
C24_Witness ==
    /\ avrcp_last.kind = "inbound"
    /\ avrcp_last.msg # <<>>
    /\ avrcp_last.msg[1].status = "Incomplete"
    /\ avrcp_last.sent # <<>>
    /\ avrcp_last.sent[1].what = "RequestContinuingResponse"
    /\ outstanding_transactions[avrcp_last.label[1]].tag = "PendingVendorDependent"

\* The frame m fails before dispatch: its opcode is not supported, it is not
\* for the subunit its opcode is handled for, or it is a UnitInfo or
\* SubunitInfo whose ctype is not Status.
FailsBeforeDispatch(m) ==
    \/ m.opcode \notin {"VendorDependent", "UnitInfo", "SubunitInfo", "PassThrough"}
    \/ m.opcode \in {"VendorDependent", "PassThrough"} /\ m.subunit # PANEL
    \/ m.opcode \in {"UnitInfo", "SubunitInfo"} /\ m.subunit # UNIT_INFO
    \/ m.opcode \in {"UnitInfo", "SubunitInfo"} /\ m.ctype # "Status"

\* C25: a frame that fails before dispatch is answered, when its ctype is a
\* command, with exactly one reply on its transaction label whose ctype is
\* NotImplemented and whose subunit, opcode and payload are those received
\* (unless send_msg fails); when its ctype is a response nothing is sent. The
\* transaction table, the volume and the registry stay as they were.
C25_NotImplementedReply ==
    [][(InboundStep /\ FailsBeforeDispatch(avrcp_last'.msg[1])) =>
          LET m == avrcp_last'.msg[1]
          IN  /\ outstanding_transactions' = outstanding_transactions
              /\ volume' = volume
              /\ registered_notifications' = registered_notifications
              /\ events' = events
              /\ avrcp_last'.answer = "-"
              /\ IF is_response(m.ctype) \/ avrcp_last'.send_failed
                 THEN avrcp_last'.sent = <<>>
                 ELSE /\ Len(avrcp_last'.sent) = 1
                      /\ avrcp_last'.sent[1].transaction_label = m.transaction_label
                      /\ avrcp_last'.sent[1].message_type = "Response"
                      /\ avrcp_last'.sent[1].ctype = "NotImplemented"
                      /\ avrcp_last'.sent[1].subunit = m.subunit
                      /\ avrcp_last'.sent[1].what = m.opcode
                      /\ avrcp_last'.sent[1].parameters = Payload(m)]_vars

\* A UnitInfo command of the wrong subunit was answered NotImplemented.
C25_Witness ==
    /\ avrcp_last.kind = "inbound"
    /\ avrcp_last.msg # <<>>
    /\ avrcp_last.msg[1].opcode = "UnitInfo"
    /\ avrcp_last.msg[1].subunit = PANEL
    /\ avrcp_last.sent # <<>>
    /\ avrcp_last.sent[1].ctype = "NotImplemented"
    /\ avrcp_last.sent[1].subunit = PANEL

\* A response of the wrong subunit was dropped without a reply.
C25_ResponseDropped ==
    /\ avrcp_last.kind = "inbound"
    /\ avrcp_last.msg # <<>>
    /\ is_response(avrcp_last.msg[1].ctype)
    /\ FailsBeforeDispatch(avrcp_last.msg[1])
    /\ avrcp_last.sent = <<>>
    /\ ~avrcp_last.send_failed

C26_SentReadBack ==
    /\ wire_msg # <<>>
    /\ wire_msg[1].via = "send_msg"
    /\ wire = <<>>
    /\ avctp_in # <<>>
    /\ avctp_in[1].data = <<2, 1>>

\* C27: an UpdatedVolume of the application is applied whatever the occupancy
\* of the transaction table: it takes no slot, the stored volume becomes its
\* quantized value, and when that differs from the stored volume a registered
\* peer is sent Changed (VolumeChanged, new volume) on its label (unless
\* send_msg fails).
C27_UpdatedVolumeApplied ==
    [][UpdatedVolumeStep =>
          LET new_volume == Quantize(avrcp_last'.msg[1].arg)
          IN  /\ outstanding_transactions' = outstanding_transactions
              /\ volume' = new_volume
              /\ (/\ new_volume # volume
                  /\ VolumeChanged \in DOMAIN registered_notifications
                  /\ ~avrcp_last'.send_failed) =>
                     avrcp_last'.sent =
                         <<AvrcpMessage(registered_notifications[VolumeChanged], "Changed",
                                        "RegisterNotification",
                                        <<VolumeChanged, new_volume>>)>>]_vars

\* The step handles a SetAbsoluteVolume command of the peer.
SetVolumeStep ==
    /\ InboundStep
    /\ avrcp_last'.msg[1].opcode = "VendorDependent"
    /\ avrcp_last'.msg[1].pdu = "SetAbsoluteVolume"

\* C28: a SetAbsoluteVolume that is answered with Rejected leaves the stored
\* volume as it was and fires no VolumeChanged event; the stored volume
\* changes on a SetAbsoluteVolume only together with an Accepted reply
\* (unless send_msg fails).
C28_RejectedKeepsVolume ==
    [][SetVolumeStep =>
          LET rejected == /\ avrcp_last'.sent # <<>>
                          /\ avrcp_last'.sent[1].ctype = "Rejected"
              accepted == /\ avrcp_last'.sent # <<>>
                          /\ avrcp_last'.sent[1].ctype = "Accepted"
          IN  /\ rejected => volume' = volume /\ avrcp_last'.event = "-"
              /\ volume' # volume => accepted \/ avrcp_last'.send_failed]_vars

\* A session task for the handle h is starting or running.
SessionTask(h) == control[h].pc \in {"configuring", "running"}

\* C29: a connection handle is in the existing-connections set only while a
\* session task for it is starting or running (not after accept_connection()
\* failed, configure() failed or the session loop ended), so that a channel
\* is rejected only while such a task exists; a channel that comes in while
\* the session of its handle is running is rejected and starts no session.
C29_HandleOnlyWhileSession ==
    /\ \A h \in ControlHandles : h \in existing_connections <=> SessionTask(h)
    /\ control_last.kind = "rejected" => SessionTask(control_last.handle)
    /\ control_last.kind = "spawned" => control[control_last.handle].pc = "configuring"

\* C30: the hand-off of a transport channel never fails because the session
\* handled a further Open that replaced the rendezvous pair, or ended,
\* between on_connection's lookup of the slot and the task's send: no
\* delivery task panics in send on a oneshot whose receiver was dropped after
\* the lookup.
C30_HandOffNeverRaces ==
    \A t \in 1..Len(tasks) : ~(tasks[t].pc = "panicked_send" /\ tasks[t].raced)

\* The step of the session worker dispatches an Open command.
OpenStep ==
    /\ sess_pc = "running"
    /\ last'.kind = "signal"
    /\ last'.msg.signal_identifier = "Open"

\* C31: an Open that is rejected (malformed payload, unknown seid, no stream
\* for the seid, or stream not in Configured) leaves the session as it was: no
\* sender is put into the shared slot, the session's receiver and the oneshot
\* channels are unchanged and no stream changes; a sender or a receiver is
\* installed only by a step that answers an Open with ResponseAccept.
C31_RejectedOpenChangesNothing ==
    [][/\ (OpenStep /\ last'.reply.message_type = "ResponseReject") =>
              /\ cell' = cell
              /\ channel_receiver' = channel_receiver
              /\ oneshot' = oneshot
              /\ streams' = streams
              /\ opened_seid' = opened_seid
       /\ (\/ \E c \in DOMAIN cell : cell'[c] # cell[c] /\ cell'[c] # 0
           \/ channel_receiver' # channel_receiver /\ channel_receiver' # 0) =>
              OpenStep /\ last'.reply.message_type = "ResponseAccept"]_vars

\* An Open for a stream that is already Opening was rejected while the
\* rendezvous pair of the first Open stands.
C31_Witness ==
    /\ Dispatched("Open")
    /\ last.reply.message_type = "ResponseReject"
    /\ last.reply.data = <<BadState>>
    /\ channel_receiver # 0
    /\ cell[sessions] = channel_receiver
    /\ oneshot[channel_receiver].st = "open"
    /\ streams = last.before

\* An Open with a trailing byte was rejected.
C31_Malformed ==
    /\ Dispatched("Open")
    /\ last.reply.message_type = "ResponseReject"
    /\ Len(last.msg.data) = 2
    /\ streams # <<>>

====
